---- MODULE Spec2Model ----
(***************************************************************************)
(* Model of the syndication engine (SyndicationEngine, Semaphore) and the  *)
(* publication ledger (PublicationManager) of edverma/syndication-tool.    *)
(*                                                                         *)
(* JavaScript runs one task at a time; a task gives up control only at an  *)
(* await.  Every action below is one such run-to-completion segment: it    *)
(* starts where a promise is settled and ends at the next await.           *)
(***************************************************************************)
EXTENDS Integers, Sequences, FiniteSets, TLC

(***************************************************************************)
(* Bounds of the model.                                                    *)
(***************************************************************************)
\* number of syndicate() invocations made on the one engine
MaxCalls == 2
\* largest value of Date.now() (the clock starts at 0)
MaxClock == 1
\* total number of platform dispatches over all invocations
MaxDispatches == 4
\* largest configured concurrency
MaxConcurrency == 2

(***************************************************************************)
(* Program constants.                                                      *)
(***************************************************************************)
\* retryConfig.maxRetries of the default configuration
DefaultMaxRetries == 3
\* the longest shortDescription ToolValidator.validate accepts
MaxShortDescription == 280

Calls == 1..MaxCalls

Platforms == {"reddit", "twitter", "github"}

(***************************************************************************)
(* Tool (models/Tool.ts).  The engine looks only at the emptiness of id,   *)
(* name, shortDescription and url and at the parseability of url; the      *)
(* short description is kept as its length.                                *)
(***************************************************************************)
ValidTool ==
  [id |-> "t1", name |-> "Foo", shortLen |-> 10, url |-> "https://foo.dev"]

Tools ==
  { ValidTool,
    [ValidTool EXCEPT !.shortLen = 281],
    [ValidTool EXCEPT !.id = ""],
    [ValidTool EXCEPT !.name = ""],
    [ValidTool EXCEPT !.shortLen = 0],
    [ValidTool EXCEPT !.url = ""],
    [ValidTool EXCEPT !.url = "not-a-url"] }

\* new URL(u) returns (does not throw): u is an absolute URL with a scheme
UrlParses(u) == u \in {"https://foo.dev"}

IfSeq(cond, x) == IF cond THEN <<x>> ELSE <<>>

\* validateTool without its rule for the name
validateTool_NoNameCheck(tool) ==
  LET errors ==
        IfSeq(tool.id = "", "Tool ID is required")
        \o IfSeq(tool.shortLen = 0, "Short description is required")
        \o IfSeq(tool.url = "", "Tool URL is required")
        \o IfSeq(~UrlParses(tool.url), "Tool URL must be valid")
  IN [isValid |-> Len(errors) = 0, errors |-> errors]

\* SyndicationEngine.validateTool
validateTool(tool) ==
  LET errors ==
        IfSeq(tool.id = "", "Tool ID is required")
        \o IfSeq(tool.name = "", "Tool name is required")
        \o IfSeq(tool.shortLen = 0, "Short description is required")
        \o IfSeq(tool.url = "", "Tool URL is required")
        \o IfSeq(~UrlParses(tool.url), "Tool URL must be valid")
  IN [isValid |-> Len(errors) = 0, errors |-> errors]

(***************************************************************************)
(* Configuration (ConfigManager): the platform list in file order and the  *)
(* concurrency.  It is loaded once and read-only afterwards.               *)
(***************************************************************************)
PC(p, e) == [platform |-> p, enabled |-> e, maxRetries |-> DefaultMaxRetries]

\* The installations the engine is run in: the platform list of the
\* configuration, the platforms with a registered adapter, and the adapters
\* whose own configuration is invalid.
Deployment(list, registered, invalid) ==
  [platforms |-> list, adapters |-> registered, misconfigured |-> invalid]

ThreePlatforms ==
  <<PC("reddit", TRUE), PC("twitter", TRUE), PC("github", TRUE)>>

OnePlatform == <<PC("twitter", TRUE), PC("github", FALSE)>>

Deployments ==
  { Deployment(ThreePlatforms, Platforms, {}),
    Deployment(ThreePlatforms, {"reddit", "twitter"}, {"twitter"}),
    Deployment(OnePlatform, Platforms, {"twitter"}),
    Deployment(OnePlatform, {"github"}, {}) }

VARIABLES
  config,    \* ConfigManager.config: [platforms, concurrency]
  adapters,  \* SyndicationEngine.adapters: the platforms with an adapter
  misconfigured, \* the adapters whose validateConfig() reports errors
  now,       \* Date.now()
  ledger,    \* PublicationManager.publications: id -> Publication object
  heap,      \* the Publication objects, by the dispatch that created them
  calls,     \* the syndicate() invocations
  tasks,     \* the platform dispatches of each invocation
  limiter,   \* TokenBucketRateLimiter: its configuration and fields
  retry,     \* the running retryWithExponentialBackoff call of an adapter
  completed, \* of each operation that succeeded, the clock value it began at
  observed,  \* the last call observed from outside and what it answered
  adapter,   \* the adapter instance: its platform and its config
  publishing \* the running publish() call of the adapter

vars ==
  <<config, adapters, misconfigured, now, ledger, heap, calls, tasks,
    limiter, retry, completed, observed, adapter, publishing>>

\* the state of one adapter (BasePlatformAdapter), which the engine's own
\* code never reads or writes
library == <<limiter, retry, completed, observed, adapter, publishing>>

NoLimiter == [burstLimit |-> 0, requestsPerMinute |-> 0, tokens |-> 0,
              lastRefill |-> 0, burst |-> 0]

\* let lastError, before its first assignment
NoError == [status |-> 0, code |-> "unassigned"]

NoRetry ==
  [pc |-> "idle", n |-> 0, maxRetries |-> 0, attempt |-> 0,
   invocations |-> 0, invokedAt |-> 0, wakeAt |-> 0, lastError |-> NoError,
   slept |-> FALSE, rejection |-> NoError]

NoCall == [op |-> "none"]

NoAdapter == [platform |-> "none"]

NoPublish == [pc |-> "idle"]

LibraryIdle ==
  /\ limiter = NoLimiter
  /\ retry = NoRetry
  /\ completed = <<>>
  /\ observed = NoCall
  /\ adapter = NoAdapter
  /\ publishing = NoPublish

NoConfig == [platform |-> "", enabled |-> FALSE, maxRetries |-> 0]

RECURSIVE FirstConfig(_, _)
FirstConfig(list, name) ==
  IF list = <<>> THEN NoConfig
  ELSE IF Head(list).platform = name THEN Head(list)
  ELSE FirstConfig(Tail(list), name)

\* ConfigManager.getPlatformConfig
getPlatformConfig(name) == FirstConfig(config.platforms, name)

\* ConfigManager.getEnabledPlatforms
getEnabledPlatforms == SelectSeq(config.platforms, LAMBDA p : p.enabled)

MapPlatform(list) == [k \in 1..Len(list) |-> list[k].platform]

\* target platforms in the opposite order of the configuration's list
getTargetPlatforms_Reversed(platformFilter) ==
  LET list == IF platformFilter # {}
              THEN SelectSeq(getEnabledPlatforms,
                             LAMBDA p : p.platform \in platformFilter)
              ELSE getEnabledPlatforms
  IN [k \in 1..Len(list) |-> list[Len(list) + 1 - k].platform]

\* target platforms taken from the whole list, the disabled entries too
getTargetPlatforms_AllListed(platformFilter) ==
  IF platformFilter # {}
  THEN MapPlatform(SelectSeq(config.platforms,
                             LAMBDA p : p.platform \in platformFilter))
  ELSE MapPlatform(config.platforms)

\* SyndicationEngine.getTargetPlatforms; an absent filter and an empty one
\* are the same to the code, both are the empty set here
getTargetPlatforms(platformFilter) ==
  IF platformFilter # {}
  THEN MapPlatform(SelectSeq(getEnabledPlatforms,
                             LAMBDA p : p.platform \in platformFilter))
  ELSE MapPlatform(getEnabledPlatforms)

(***************************************************************************)
(* Publication and PublicationManager (the ledger).                        *)
(***************************************************************************)
NoPostId == [kind |-> "undefined", n |-> 0]
DryRunPostId(t) == [kind |-> "dry-run-", n |-> t]
RealPostId == [kind |-> "post", n |-> 1]

NoMetadata == [defined |-> FALSE, dryRun |-> FALSE]
NoPub ==
  [id |-> <<>>, toolId |-> "", platform |-> "", status |-> "none",
   timestamp |-> 0, platformPostId |-> NoPostId, url |-> "undefined",
   error |-> "undefined", retryCount |-> 0, maxRetries |-> 0,
   metadata |-> NoMetadata]
NoRef == <<0, 0>>

\* the id template `${toolId}-${platform}-${Date.now()}`
PublicationId(toolId, platform, t) == <<toolId, platform, t>>

\* PublicationManager.createPublication: the new object is stored under its
\* id, replacing whatever the map held there
createPublication(w, ref, toolId, platform, maxRetries) ==
  LET publication ==
        [id |-> PublicationId(toolId, platform, w.now),
         toolId |-> toolId,
         platform |-> platform,
         status |-> "pending",
         timestamp |-> w.now,
         platformPostId |-> NoPostId,
         url |-> "undefined",
         error |-> "undefined",
         retryCount |-> 0,
         maxRetries |-> maxRetries,
         metadata |-> NoMetadata]
  IN [w EXCEPT !.ledger = (publication.id :> ref) @@ w.ledger,
               !.heap[ref[1]][ref[2]] = publication]

\* an update that puts the patch in the place of the record
updatePublication_Replaces(w, id, updates) ==
  IF id \in DOMAIN w.ledger
  THEN LET ref == w.ledger[id]
       IN [w EXCEPT !.heap[ref[1]][ref[2]] = updates @@ NoPub]
  ELSE w

\* PublicationManager.updatePublication: Object.assign(publication, updates)
updatePublication(w, id, updates) ==
  IF id \in DOMAIN w.ledger
  THEN LET ref == w.ledger[id]
       IN [w EXCEPT !.heap[ref[1]][ref[2]] = updates @@ @]
  ELSE w

\* PublicationManager.getPublication
getPublication(w, id) == IF id \in DOMAIN w.ledger THEN w.ledger[id] ELSE NoRef

Deref(ref) == heap[ref[1]][ref[2]]

\* PublicationManager.shouldRetry
shouldRetry(publication) ==
  publication.status = "failed"
    /\ publication.retryCount < publication.maxRetries


(***************************************************************************)
(* One platform dispatch: SyndicationEngine.syndicateToPlatform.  The      *)
(* operators below work on w = [now, ledger, heap, tasks], so that one     *)
(* action can run several of them in sequence.  Date.now() is read with    *)
(* ReadClock: the value t read is any value from the last one read on.     *)
(***************************************************************************)
NewTask(pc) ==
  [pc |-> pc, pubId |-> <<>>, error |-> "", ret |-> NoRef, outcome |-> ""]

ReadClock(w, t) == [w EXCEPT !.now = t]

World == [now |-> now, ledger |-> ledger, heap |-> heap, tasks |-> tasks]

\* the adapter method m is called and the dispatch awaits its promise
Invoke(w, c, i, m) == [w EXCEPT !.tasks[c][i].pc = m]

\* a throw before the publication record exists (lines 343-351)
Reject(w, c, i, msg) ==
  [w EXCEPT !.tasks[c][i].pc = "rejected", !.tasks[c][i].error = msg]

\* syndicateToPlatform from its entry to its first await (lines 341-367)
BeginDispatch(w, c, i, toolId, platform, t) ==
  IF platform \notin adapters
  THEN Reject(w, c, i, "No adapter found for platform")
  ELSE LET cfg == getPlatformConfig(platform) IN
       IF cfg = NoConfig \/ ~cfg.enabled
       THEN Reject(w, c, i, "Platform is not enabled")
       ELSE LET id == PublicationId(toolId, platform, t)
                w1 == createPublication(ReadClock(w, t), <<c, i>>, toolId,
                                        platform, cfg.maxRetries)
                w2 == updatePublication(w1, id, [status |-> "in_progress"])
                w3 == [w2 EXCEPT !.tasks[c][i].pubId = id]
            IN Invoke(w3, c, i, "validateConfig")

\* a catch block that rethrows without marking the record
FailAttempt_Unmarked(w, c, i, msg) == Reject(w, c, i, msg)

\* a catch block that counts the failure as a retry
FailAttempt_CountsRetry(w, c, i, msg) ==
  LET id == w.tasks[c][i].pubId
      count == IF id \in DOMAIN w.ledger
               THEN w.heap[w.ledger[id][1]][w.ledger[id][2]].retryCount
               ELSE 0
  IN Reject(updatePublication(w, id,
                              [status |-> "failed", error |-> msg,
                               retryCount |-> count + 1]),
            c, i, msg)

\* the catch block of syndicateToPlatform (lines 409-419)
FailAttempt(w, c, i, msg) ==
  Reject(updatePublication(w, w.tasks[c][i].pubId,
                           [status |-> "failed", error |-> msg]),
         c, i, msg)

\* the return of syndicateToPlatform (line 421)
ReturnPublication(w, c, i) ==
  [w EXCEPT !.tasks[c][i].pc = "resolved",
            !.tasks[c][i].ret = getPublication(w, w.tasks[c][i].pubId)]

\* the dry-run branch storing a post id without the prefix and no mark
DryRunSuccess_Unmarked(w, c, i, t) ==
  ReturnPublication(
    updatePublication(ReadClock(w, t), w.tasks[c][i].pubId,
                      [status |-> "success",
                       platformPostId |-> [kind |-> "post", n |-> t],
                       metadata |-> [defined |-> TRUE, dryRun |-> FALSE]]),
    c, i)

\* the dry-run branch (lines 384-391)
DryRunSuccess(w, c, i, t) ==
  ReturnPublication(
    updatePublication(ReadClock(w, t), w.tasks[c][i].pubId,
                      [status |-> "success",
                       platformPostId |-> DryRunPostId(t),
                       metadata |-> [defined |-> TRUE, dryRun |-> TRUE]]),
    c, i)

\* what adapter.publish can resolve to (PublicationResult)
PublicationResults ==
  { [success |-> TRUE, postId |-> RealPostId, url |-> "https://post",
     error |-> "undefined"],
    [success |-> TRUE, postId |-> NoPostId, url |-> "undefined",
     error |-> "undefined"],
    [success |-> FALSE, postId |-> NoPostId, url |-> "undefined",
     error |-> "HTTP 500"] }

\* a result without success that is thrown past the catch block
PublishResult_Unmarked(w, c, i, result) ==
  IF result.success
  THEN ReturnPublication(
         updatePublication(w, w.tasks[c][i].pubId,
                           [status |-> "success",
                            platformPostId |-> result.postId,
                            url |-> result.url,
                            metadata |-> [defined |-> TRUE, dryRun |-> FALSE]]),
         c, i)
  ELSE Reject(w, c, i, "Publication failed")

\* the handling of publish's result (lines 396-407)
PublishResult(w, c, i, result) ==
  IF result.success
  THEN ReturnPublication(
         updatePublication(w, w.tasks[c][i].pubId,
                           [status |-> "success",
                            platformPostId |-> result.postId,
                            url |-> result.url,
                            metadata |-> [defined |-> TRUE, dryRun |-> FALSE]]),
         c, i)
  ELSE FailAttempt(w, c, i,
                   IF result.error # "undefined" THEN result.error
                   ELSE "Publication failed")

\* formatContent followed by publish without a look at options.dryRun
AfterFormat_AlwaysPublish(w, c, i, dryRun, t) == Invoke(w, c, i, "publish")

\* after formatContent: dry run or publish (lines 382-394)
AfterFormat(w, c, i, dryRun, t) ==
  IF dryRun THEN DryRunSuccess(w, c, i, t) ELSE Invoke(w, c, i, "publish")

Commit(w) ==
  /\ now' = w.now
  /\ ledger' = w.ledger
  /\ heap' = w.heap
  /\ tasks' = w.tasks

Awaiting(c, i, m) ==
  /\ c \in Calls
  /\ calls[c].pc = "running"
  /\ i \in 1..Len(tasks[c])
  /\ tasks[c][i].pc = m

\* adapter.validateConfig() settles (lines 367-373); its answer is a
\* function of the adapter's configuration, which does not change
ValidateConfigReturns(c, i) ==
  /\ Awaiting(c, i, "validateConfig")
  /\ LET isValid == calls[c].targets[i] \notin misconfigured
     IN Commit(IF isValid THEN Invoke(World, c, i, "isAuthenticated")
               ELSE FailAttempt(World, c, i, "Invalid configuration"))
  /\ UNCHANGED <<library, config, adapters, misconfigured, calls>>

\* adapter.isAuthenticated() settles (lines 373-375)
IsAuthenticatedReturns(c, i) ==
  /\ Awaiting(c, i, "isAuthenticated")
  /\ \E isAuthenticated \in BOOLEAN :
       Commit(IF isAuthenticated THEN Invoke(World, c, i, "formatContent")
              ELSE Invoke(World, c, i, "authenticate"))
  /\ UNCHANGED <<library, config, adapters, misconfigured, calls>>

\* adapter.authenticate() settles (lines 375-382)
AuthenticateReturns(c, i) ==
  /\ Awaiting(c, i, "authenticate")
  /\ \E authResult \in BOOLEAN :
       Commit(IF authResult THEN Invoke(World, c, i, "formatContent")
              ELSE FailAttempt(World, c, i, "Authentication failed"))
  /\ UNCHANGED <<library, config, adapters, misconfigured, calls>>

\* adapter.formatContent() settles (lines 382-394)
FormatContentReturns(c, i) ==
  /\ Awaiting(c, i, "formatContent")
  /\ \E throws \in BOOLEAN, t \in now..MaxClock :
       Commit(IF throws THEN FailAttempt(World, c, i, "formatContent threw")
              ELSE AfterFormat(World, c, i, calls[c].dryRun, t))
  /\ UNCHANGED <<library, config, adapters, misconfigured, calls>>

\* adapter.publish() resolves (lines 394-407)
PublishReturns(c, i) ==
  /\ Awaiting(c, i, "publish")
  /\ \E result \in PublicationResults :
       Commit(PublishResult(World, c, i, result))
  /\ UNCHANGED <<library, config, adapters, misconfigured, calls>>

(***************************************************************************)
(* The orchestration: syndicate, syndicateSequentially,                    *)
(* syndicateConcurrently, Semaphore.                                       *)
(***************************************************************************)
NoResult ==
  [success |-> FALSE,
   summary |-> [total |-> 0, successful |-> 0, failed |-> 0, skipped |-> 0]]

\* the success Publications of the tool that syndicate finds in the ledger
\* before it dispatches (lines 230-240): their platforms are logged
successfulPublications(toolId) ==
  { Deref(ledger[id]) :
      id \in { i \in DOMAIN ledger :
                 /\ Deref(ledger[i]).toolId = toolId
                 /\ Deref(ledger[i]).status = "success" } }

IdleCall ==
  [pc |-> "idle", tool |-> ValidTool, dryRun |-> FALSE, concurrent |-> FALSE,
   targets |-> <<>>, publications |-> <<>>, errors |-> <<>>,
   permits |-> 0, waiting |-> <<>>, result |-> NoResult, successful |-> {}]

RECURSIVE SumTargets(_)
SumTargets(S) ==
  IF S = {} THEN 0
  ELSE LET c == CHOOSE x \in S : TRUE
       IN Len(calls[c].targets) + SumTargets(S \ {c})

\* acquire() admitting a caller while permits >= 0 instead of permits > 0
AcquireAll_ExtraPermit(n, permits) ==
  [i \in 1..n |-> NewTask(IF i <= permits + 1 THEN "acquired" ELSE "waiting")]

\* Semaphore.acquire of every dispatch, in platform order: the callbacks of
\* platforms.map run one after another up to their first await (line 301)
AcquireAll(n, permits) ==
  [i \in 1..n |-> NewTask(IF i <= permits THEN "acquired" ELSE "waiting")]

Range(from, to) == [k \in 1..(to - from + 1) |-> from + k - 1]

\* the promise of syndicateSequentially / syndicateConcurrently that
\* syndicate awaits is resolved once no dispatch is left
Dispatching(left) == IF left = 0 THEN "dispatched" ELSE "running"

\* SyndicationEngine.syndicate up to its first await (lines 210-246)
StartSyndicate(c, tool, platformFilter, dryRun, concurrentOpt, t) ==
  /\ calls[c].pc = "idle"
  /\ \A d \in Calls : d < c => calls[d].pc # "idle"
  /\ LET targets == getTargetPlatforms(platformFilter)
         n == Len(targets)
         toolValidation == validateTool(tool)
         concurrent == concurrentOpt /\ config.concurrency > 1
         started == [calls[c] EXCEPT !.tool = tool, !.dryRun = dryRun,
                                     !.concurrent = concurrent,
                                     !.successful =
                                       successfulPublications(tool.id)]
         acquired == AcquireAll(n, config.concurrency)
         holding == {k \in 1..n : acquired[k].pc = "acquired"}
     IN IF ~toolValidation.isValid
        THEN /\ calls' = [calls EXCEPT ![c] =
                            [@ EXCEPT !.tool = tool, !.pc = "returned",
                                      !.errors = toolValidation.errors]]
             /\ UNCHANGED <<now, ledger, heap, tasks>>
        ELSE /\ SumTargets(Calls) + n <= MaxDispatches
             /\ IF concurrent
                THEN /\ calls' = [calls EXCEPT ![c] =
                            [started EXCEPT
                               !.pc = Dispatching(n), !.targets = targets,
                               !.permits =
                                 IF Cardinality(holding) < config.concurrency
                                 THEN config.concurrency - Cardinality(holding)
                                 ELSE 0,
                               !.waiting =
                                 SelectSeq(Range(1, n),
                                           LAMBDA k : k \notin holding)]]
                     /\ tasks' = [tasks EXCEPT ![c] = acquired]
                     /\ UNCHANGED <<now, ledger, heap>>
                ELSE /\ calls' = [calls EXCEPT ![c] =
                            [started EXCEPT !.pc = Dispatching(n),
                                            !.targets = targets]]
                     /\ LET w == [World EXCEPT !.tasks[c] =
                                    [i \in 1..n |-> NewTask("unstarted")]]
                        IN Commit(IF n = 0 THEN w
                                  ELSE BeginDispatch(w, c, 1, tool.id,
                                                     targets[1], t))
  /\ UNCHANGED <<library, config, adapters, misconfigured>>

Settled(c, i) ==
  /\ c \in Calls
  /\ calls[c].pc = "running"
  /\ i \in 1..Len(tasks[c])
  /\ tasks[c][i].pc \in {"resolved", "rejected"}

\* the dispatch is over: its locals are gone
Finish(w, c, i) ==
  [w EXCEPT !.tasks[c][i] =
     [NewTask("done") EXCEPT !.outcome = w.tasks[c][i].pc]]

\* publications.push(publication) or errors.push(errorMessage)
\* (lines 303-308 and 326-331)
Collect(call, c, i) ==
  IF tasks[c][i].pc = "resolved"
  THEN [call EXCEPT !.publications = Append(@, tasks[c][i].ret)]
  ELSE [call EXCEPT !.errors =
          Append(@, <<call.targets[i], tasks[c][i].error>>)]

\* a loop without the try/catch: the first failed dispatch ends it
ContinueSequential_StopOnError(c, i, t) ==
  /\ Settled(c, i)
  /\ ~calls[c].concurrent
  /\ LET stop == tasks[c][i].pc = "rejected" \/ i = Len(tasks[c])
         w == Finish(World, c, i)
     IN /\ calls' = [calls EXCEPT ![c] =
                       [Collect(@, c, i) EXCEPT
                          !.pc = IF stop THEN "dispatched" ELSE "running"]]
        /\ Commit(IF stop THEN w
                  ELSE BeginDispatch(w, c, i + 1, calls[c].tool.id,
                                     calls[c].targets[i + 1], t))
  /\ UNCHANGED <<library, config, adapters, misconfigured>>

\* syndicateSequentially after await syndicateToPlatform: collect the
\* outcome and enter the next iteration of the loop (lines 324-333)
ContinueSequential(c, i, t) ==
  /\ Settled(c, i)
  /\ ~calls[c].concurrent
  /\ calls' = [calls EXCEPT ![c] =
                [Collect(@, c, i) EXCEPT !.pc = Dispatching(Len(tasks[c]) - i)]]
  /\ LET w == Finish(World, c, i)
     IN Commit(IF i < Len(tasks[c])
               THEN BeginDispatch(w, c, i + 1, calls[c].tool.id,
                                  calls[c].targets[i + 1], t)
               ELSE w)
  /\ UNCHANGED <<library, config, adapters, misconfigured>>

\* the callback of syndicateConcurrently resumes with its permit and enters
\* syndicateToPlatform (lines 301-303)
ConcurrentBegin(c, i, t) ==
  /\ Awaiting(c, i, "acquired")
  /\ Commit(BeginDispatch(World, c, i, calls[c].tool.id, calls[c].targets[i],
                          t))
  /\ UNCHANGED <<library, config, adapters, misconfigured, calls>>

\* Semaphore.release resuming the waiter that blocked last
release_Lifo(call, w, c) ==
  IF Len(call.waiting) > 0
  THEN [call |-> [call EXCEPT
                    !.waiting = SubSeq(@, 1, Len(@) - 1)],
        w |-> [w EXCEPT
                 !.tasks[c][call.waiting[Len(call.waiting)]].pc = "acquired"]]
  ELSE [call |-> [call EXCEPT !.permits = @ + 1], w |-> w]

\* a release that puts the permit back and wakes nobody
release_LostWakeup(call, w, c) ==
  [call |-> [call EXCEPT !.permits = @ + 1], w |-> w]

\* Semaphore.release (lines 503-510): the permit goes to the first waiter,
\* whose acquire() promise is resolved, or back to the pool
release(call, w, c) ==
  IF Len(call.waiting) > 0
  THEN [call |-> [call EXCEPT !.waiting = Tail(@)],
        w |-> [w EXCEPT !.tasks[c][Head(call.waiting)].pc = "acquired"]]
  ELSE [call |-> [call EXCEPT !.permits = @ + 1], w |-> w]

\* the callback of syndicateConcurrently after await syndicateToPlatform:
\* collect the outcome, then finally release (lines 303-311)
ContinueConcurrent(c, i) ==
  /\ Settled(c, i)
  /\ calls[c].concurrent
  /\ LET r == release(Collect(calls[c], c, i), Finish(World, c, i), c)
         left == Cardinality({k \in 1..Len(tasks[c]) :
                                r.w.tasks[c][k].pc # "done"})
     IN /\ calls' = [calls EXCEPT ![c] =
                       [r.call EXCEPT !.pc = Dispatching(left)]]
        /\ Commit(r.w)
  /\ UNCHANGED <<library, config, adapters, misconfigured>>

CountStatus(publications, status) ==
  Cardinality({k \in 1..Len(publications) :
                 Deref(publications[k]).status = status})

\* SyndicationEngine.calculateSummary
calculateSummary(publications) ==
  [total |-> Len(publications),
   successful |-> CountStatus(publications, "success"),
   failed |-> CountStatus(publications, "failed"),
   skipped |-> CountStatus(publications, "pending")]

\* syndicate after the dispatch loop (lines 248-259)
Return(c) ==
  /\ calls[c].pc = "dispatched"
  /\ LET summary == calculateSummary(calls[c].publications)
     IN calls' = [calls EXCEPT ![c].pc = "returned",
                               ![c].result =
                                 [success |-> summary.failed = 0
                                              /\ summary.successful > 0,
                                  summary |-> summary]]
  /\ UNCHANGED <<library, config, adapters, misconfigured, now, ledger, heap,
               tasks>>

MaxTargets == 3

Init ==
  /\ \E d \in Deployments, n \in 1..MaxConcurrency :
       /\ config = [platforms |-> d.platforms, concurrency |-> n]
       /\ adapters = d.adapters
       /\ misconfigured = d.misconfigured
  /\ now = 0
  /\ ledger = <<>>
  /\ heap = [c \in Calls |-> [i \in 1..MaxTargets |-> NoPub]]
  /\ calls = [c \in Calls |-> IdleCall]
  /\ tasks = [c \in Calls |-> <<>>]
  /\ LibraryIdle

\* an adapter method settles and syndicateToPlatform runs to its next await
AdapterReturns ==
  \/ \E c \in Calls, i \in 1..MaxTargets : ValidateConfigReturns(c, i)
  \/ \E c \in Calls, i \in 1..MaxTargets : IsAuthenticatedReturns(c, i)
  \/ \E c \in Calls, i \in 1..MaxTargets : AuthenticateReturns(c, i)
  \/ \E c \in Calls, i \in 1..MaxTargets : FormatContentReturns(c, i)
  \/ \E c \in Calls, i \in 1..MaxTargets : PublishReturns(c, i)

\* The invocations made: the valid tool with every combination of options,
\* the other tools with the default options.
Requests ==
  [tool : {ValidTool}, platforms : SUBSET Platforms, dryRun : BOOLEAN,
   concurrent : BOOLEAN]
  \cup [tool : Tools \ {ValidTool}, platforms : {{}}, dryRun : {FALSE},
        concurrent : {FALSE}]

\* one syndicate() invocation
Next ==
  \/ \E r \in Requests, t \in now..MaxClock :
       StartSyndicate(1, r.tool, r.platforms, r.dryRun, r.concurrent, t)
  \/ AdapterReturns
  \/ \E c \in Calls, i \in 1..MaxTargets, t \in now..MaxClock :
       ConcurrentBegin(c, i, t)
  \/ \E c \in Calls, i \in 1..MaxTargets : ContinueConcurrent(c, i)
  \/ \E c \in Calls, i \in 1..MaxTargets, t \in now..MaxClock :
       ContinueSequential(c, i, t)
  \/ \E c \in Calls : Return(c)

Spec == Init /\ [][Next]_vars

\* Every adapter call settles in the end, and the event loop runs every
\* continuation that is ready: the callback resumed by acquire(), the code
\* after await syndicateToPlatform, the code after the dispatch loop.
SpecLive ==
  /\ Spec
  /\ WF_vars(AdapterReturns)
  /\ WF_vars(\E c \in Calls, i \in 1..MaxTargets, t \in now..MaxClock :
               ConcurrentBegin(c, i, t))
  /\ WF_vars(\E c \in Calls, i \in 1..MaxTargets : ContinueConcurrent(c, i))
  /\ WF_vars(\E c \in Calls, i \in 1..MaxTargets, t \in now..MaxClock :
               ContinueSequential(c, i, t))
  /\ WF_vars(\E c \in Calls : Return(c))

(***************************************************************************)
(* Several syndicate() invocations on the one engine, which may overlap:   *)
(* the caller need not await one before it makes the next.  One enabled    *)
(* platform, sequential mode.                                              *)
(***************************************************************************)
InitCalls ==
  /\ config = [platforms |-> OnePlatform, concurrency |-> 1]
  /\ adapters = Platforms
  /\ misconfigured = {}
  /\ now = 0
  /\ ledger = <<>>
  /\ heap = [c \in Calls |-> [i \in 1..MaxTargets |-> NoPub]]
  /\ calls = [c \in Calls |-> IdleCall]
  /\ tasks = [c \in Calls |-> <<>>]
  /\ LibraryIdle

ToolsOfCalls == { ValidTool, [ValidTool EXCEPT !.name = ""] }

NextCalls ==
  \/ \E c \in Calls, tool \in ToolsOfCalls, dryRun \in BOOLEAN,
        t \in now..MaxClock :
       StartSyndicate(c, tool, {}, dryRun, FALSE, t)
  \/ AdapterReturns
  \/ \E c \in Calls, i \in 1..MaxTargets, t \in now..MaxClock :
       ContinueSequential(c, i, t)
  \/ \E c \in Calls : Return(c)

SpecCalls == InitCalls /\ [][NextCalls]_vars


(***************************************************************************)
(* The Semaphore on its own: acquirers that arrive at any time, hold their *)
(* permit for a while and release it.  The semaphore is the one of call 1  *)
(* (calls[1].permits, calls[1].waiting), the acquirers are tasks[1].       *)
(***************************************************************************)
MaxAcquirers == 4

\* Semaphore.acquire (lines 492-501): a permit is taken at once, or the
\* caller's resolve is pushed on the waiting list
acquire(call, w, c, i) ==
  IF call.permits > 0
  THEN [call |-> [call EXCEPT !.permits = @ - 1],
        w |-> [w EXCEPT !.tasks[c][i].pc = "acquired"]]
  ELSE [call |-> [call EXCEPT !.waiting = Append(@, i)],
        w |-> [w EXCEPT !.tasks[c][i].pc = "waiting"]]

\* the acquirers that are blocked, in the order in which they blocked
Blocked(op, resumed, blocked) ==
  [op |-> op, resumed |-> resumed, blocked |-> blocked]

\* acquirer i calls acquire()
SemaphoreAcquire(i) ==
  /\ tasks[1][i].pc = "unstarted"
  /\ LET r == acquire(calls[1], World, 1, i)
     IN /\ calls' = [calls EXCEPT ![1] = r.call]
        /\ Commit(r.w)
        /\ observed' =
             Blocked("acquire", 0,
                     IF r.w.tasks[1][i].pc = "waiting"
                     THEN Append(observed.blocked, i)
                     ELSE observed.blocked)
  /\ UNCHANGED <<config, adapters, misconfigured, limiter, retry, completed,
               adapter, publishing>>

\* acquirer i, which holds a permit, calls release() and leaves; it may
\* come back later
SemaphoreRelease(i) ==
  /\ tasks[1][i].pc = "acquired"
  /\ LET r == release(calls[1], [World EXCEPT !.tasks[1][i].pc = "unstarted"],
                      1)
         resumed == {k \in 1..MaxAcquirers :
                       tasks[1][k].pc = "waiting"
                       /\ r.w.tasks[1][k].pc = "acquired"}
     IN /\ calls' = [calls EXCEPT ![1] = r.call]
        /\ Commit(r.w)
        /\ observed' =
             Blocked("release",
                     IF resumed = {} THEN 0 ELSE CHOOSE k \in resumed : TRUE,
                     SelectSeq(observed.blocked, LAMBDA k : k \notin resumed))
  /\ UNCHANGED <<config, adapters, misconfigured, limiter, retry, completed,
               adapter, publishing>>

InitSemaphore ==
  /\ \E permits \in 1..MaxConcurrency :
       /\ config = [platforms |-> <<>>, concurrency |-> permits]
       /\ calls = [c \in Calls |->
                     IF c = 1
                     THEN [IdleCall EXCEPT !.pc = "running",
                                           !.concurrent = TRUE,
                                           !.permits = permits]
                     ELSE IdleCall]
  /\ adapters = {}
  /\ misconfigured = {}
  /\ now = 0
  /\ ledger = <<>>
  /\ heap = [c \in Calls |-> [i \in 1..MaxTargets |-> NoPub]]
  /\ tasks = [c \in Calls |->
                IF c = 1
                THEN [i \in 1..MaxAcquirers |-> NewTask("unstarted")]
                ELSE <<>>]
  /\ limiter = NoLimiter
  /\ retry = NoRetry
  /\ completed = <<>>
  /\ observed = Blocked("new", 0, <<>>)
  /\ adapter = NoAdapter
  /\ publishing = NoPublish

NextSemaphore ==
  \/ \E i \in 1..MaxAcquirers : SemaphoreAcquire(i)
  \/ \E i \in 1..MaxAcquirers : SemaphoreRelease(i)

SpecSemaphore == InitSemaphore /\ [][NextSemaphore]_vars


(***************************************************************************)
(* SyndicationEngine.retryFailed, called on the engine between and during  *)
(* syndicate() invocations.  An absent toolId is "".                       *)
(***************************************************************************)
ToolIds == {"", ValidTool.id, "other"}

Failed(id) == Deref(ledger[id]).status = "failed"

getPublicationsByTool(toolId) ==
  {id \in DOMAIN ledger : Deref(ledger[id]).toolId = toolId}

getFailedPublications == {id \in DOMAIN ledger : Failed(id)}

\* the keys of the map groupPublicationsByTool builds
groupPublicationsByTool(publications) ==
  {Deref(ledger[id]).toolId : id \in publications}

\* the placeholder that loads a tool: it resolves to null for every id
getToolById(toolId) == [found |-> FALSE]

\* retryFailed(toolId): the failed publications are grouped by tool; a
\* group whose tool is not found is skipped, the others are handed to
\* syndicate with their platforms and retryFailed: true, one result each
RetryFailed(toolId) ==
  /\ LET failedPublications ==
           IF toolId # ""
           THEN {id \in getPublicationsByTool(toolId) : Failed(id)}
           ELSE getFailedPublications
         toolGroups == groupPublicationsByTool(failedPublications)
         found == {k \in toolGroups : getToolById(k).found}
     IN observed' = [op |-> "retryFailed", toolId |-> toolId,
                     results |-> Cardinality(found)]
  /\ UNCHANGED <<config, adapters, misconfigured, now, ledger, heap, calls,
               tasks, limiter, retry, completed, adapter, publishing>>

NextRetryFailed ==
  \/ NextCalls
  \/ \E toolId \in ToolIds : RetryFailed(toolId)

SpecRetryFailed == InitCalls /\ [][NextRetryFailed]_vars


(***************************************************************************)
(* The PublicationManager on its own: records are created and patched by   *)
(* any caller, under ids that are in the ledger and ids that are not.  The *)
(* objects created are heap[1][1], heap[1][2], ... in this order.          *)
(***************************************************************************)
\* number of createPublication calls
MaxRecords == 2

\* the partial Publications handed to updatePublication
Patches ==
  { [status |-> "in_progress"],
    [status |-> "failed", error |-> "HTTP 500"],
    [status |-> "success", platformPostId |-> RealPostId,
     url |-> "https://post"] }

\* publicationManager.createPublication(toolId, platform, maxRetries), the
\* clock being t
CreatePublicationCall(platform, t) ==
  /\ \E i \in 1..MaxTargets :
       /\ i <= MaxRecords
       /\ heap[1][i] = NoPub
       /\ \A j \in 1..(i - 1) : heap[1][j] # NoPub
       /\ Commit(createPublication(ReadClock(World, t), <<1, i>>,
                                  ValidTool.id, platform, DefaultMaxRetries))
  /\ observed' = [op |-> "createPublication",
                  id |-> PublicationId(ValidTool.id, platform, t),
                  patch |-> <<>>]
  /\ UNCHANGED <<config, adapters, misconfigured, calls, limiter, retry,
                 completed, adapter, publishing>>

\* publicationManager.updatePublication(id, patch)
UpdatePublicationCall(id, patch) ==
  /\ Commit(updatePublication(World, id, patch))
  /\ observed' = [op |-> "updatePublication", id |-> id, patch |-> patch]
  /\ UNCHANGED <<config, adapters, misconfigured, calls, limiter, retry,
                 completed, adapter, publishing>>

NextLedger ==
  \/ \E platform \in {"twitter", "github"}, t \in now..MaxClock :
       CreatePublicationCall(platform, t)
  \/ \E platform \in {"twitter", "github"}, t \in 0..MaxClock,
        patch \in Patches :
       UpdatePublicationCall(PublicationId(ValidTool.id, platform, t), patch)

SpecLedger == InitCalls /\ [][NextLedger]_vars


(***************************************************************************)
(* TokenBucketRateLimiter.  tokens is a fraction in the code (refillRate   *)
(* is requestsPerMinute / 60000 tokens per millisecond); here it is kept   *)
(* in units of 1/60000 token, which makes every value an integer.  The     *)
(* field burst is not in the code: it counts the recordRequest calls made  *)
(* since lastRefill was set.                                               *)
(***************************************************************************)
\* the divisor of refillRate: milliseconds in a minute
MsPerMinute == 60000
\* largest clock value in the runs of a limiter
MaxLimiterClock == 4
\* largest burstLimit
MaxBurst == 2

RequestRates == {20000, 40000, 60000}

Min(a, b) == IF a <= b THEN a ELSE b

\* Math.ceil(a / b) for a >= 0, b > 0
CeilDiv(a, b) == (a + b - 1) \div b

\* new TokenBucketRateLimiter(config) at clock value t
NewLimiter(burstLimit, requestsPerMinute, t) ==
  [burstLimit |-> burstLimit, requestsPerMinute |-> requestsPerMinute,
   tokens |-> burstLimit * MsPerMinute, lastRefill |-> t, burst |-> 0]

\* this.tokens >= 1
HasToken(l) == l.tokens >= MsPerMinute

\* a refill that is not capped at the capacity
refillTokens_Uncapped(l, t) ==
  [l EXCEPT !.tokens = l.tokens + (t - l.lastRefill) * l.requestsPerMinute,
            !.lastRefill = t,
            !.burst = 0]

\* TokenBucketRateLimiter.refillTokens, Date.now() being t
refillTokens(l, t) ==
  [l EXCEPT !.tokens = Min(l.burstLimit * MsPerMinute,
                           l.tokens + (t - l.lastRefill) * l.requestsPerMinute),
            !.lastRefill = t,
            !.burst = 0]

\* TokenBucketRateLimiter.recordRequest
recordRequest(l) ==
  [l EXCEPT !.tokens = IF HasToken(l) THEN @ - MsPerMinute ELSE @,
            !.burst = @ + 1]

\* TokenBucketRateLimiter.getWaitTime
getWaitTime(l, t) ==
  LET r == refillTokens(l, t)
  IN [limiter |-> r,
      waitTime |-> IF HasToken(r) THEN 0
                   ELSE CeilDiv(MsPerMinute - r.tokens, r.requestsPerMinute)]

\* canMakeRequest answering before the bucket is refilled
canMakeRequest_NoRefill(l, t) ==
  [limiter |-> [l EXCEPT !.lastRefill = t, !.burst = 0],
   answer |-> HasToken(l)]

\* TokenBucketRateLimiter.canMakeRequest
canMakeRequest(l, t) ==
  LET r == refillTokens(l, t)
  IN [limiter |-> r, answer |-> HasToken(r)]

\* the engine's variables, which no adapter code touches
engine == <<config, adapters, misconfigured, ledger, heap, calls, tasks>>

EngineIdle ==
  /\ config = [platforms |-> <<>>, concurrency |-> 1]
  /\ adapters = {}
  /\ misconfigured = {}
  /\ ledger = <<>>
  /\ heap = [c \in Calls |-> [i \in 1..MaxTargets |-> NoPub]]
  /\ calls = [c \in Calls |-> IdleCall]
  /\ tasks = [c \in Calls |-> <<>>]

\* what a call on the limiter answered, with the state it was made in
LimiterCall(op, l, t, answer, waitTime) ==
  [op |-> op, burst |-> l.burst, elapsed |-> t - l.lastRefill,
   tokens |-> l.tokens, answer |-> answer, waitTime |-> waitTime]

CanMakeRequest(t) ==
  /\ LET r == canMakeRequest(limiter, t)
     IN /\ limiter' = r.limiter
        /\ observed' = LimiterCall("canMakeRequest", limiter, t, r.answer, 0)
  /\ now' = t
  /\ UNCHANGED <<engine, retry, completed, adapter, publishing>>

\* (no more than burstLimit + 1 calls in a row are looked at)
RecordRequest ==
  /\ limiter.burst <= limiter.burstLimit
  /\ limiter' = recordRequest(limiter)
  /\ observed' = LimiterCall("recordRequest", limiter, limiter.lastRefill,
                             FALSE, 0)
  /\ UNCHANGED <<engine, now, retry, completed, adapter, publishing>>

GetWaitTime(t) ==
  /\ LET r == getWaitTime(limiter, t)
     IN /\ limiter' = r.limiter
        /\ observed' = LimiterCall("getWaitTime", limiter, t, FALSE, r.waitTime)
  /\ now' = t
  /\ UNCHANGED <<engine, retry, completed, adapter, publishing>>

\* TokenBucketRateLimiter.waitIfNeeded (lines 166-171): getWaitTime, then a
\* sleep that touches no field; other calls may come in during the sleep
WaitIfNeeded(t) ==
  /\ LET r == getWaitTime(limiter, t)
     IN /\ limiter' = r.limiter
        /\ observed' = LimiterCall("waitIfNeeded", limiter, t, FALSE, r.waitTime)
  /\ now' = t
  /\ UNCHANGED <<engine, retry, completed, adapter, publishing>>

InitLimiter ==
  /\ EngineIdle
  /\ now = 0
  /\ \E burstLimit \in 1..MaxBurst, requestsPerMinute \in RequestRates :
       limiter = NewLimiter(burstLimit, requestsPerMinute, 0)
  /\ retry = NoRetry
  /\ completed = <<>>
  /\ observed = NoCall
  /\ adapter = NoAdapter
  /\ publishing = NoPublish

\* calls on one limiter, at any later clock values
NextLimiter ==
  \/ \E t \in now..MaxLimiterClock : CanMakeRequest(t)
  \/ RecordRequest
  \/ \E t \in now..MaxLimiterClock : GetWaitTime(t)
  \/ \E t \in now..MaxLimiterClock : WaitIfNeeded(t)

SpecLimiter == InitLimiter /\ [][NextLimiter]_vars


(***************************************************************************)
(* BasePlatformAdapter.retryWithExponentialBackoff, with the rate limiter  *)
(* of the adapter.  An error is [status, code]: error.response.status (0   *)
(* when there is no response or no status) and error.code ("" when there   *)
(* is none).  The fields n, invocations, invokedAt and slept of retry are   *)
(* not in the code: the number of the call, the invocations of operation() *)
(* it made, the clock value of the last one and whether waitIfNeeded slept *)
(* before it.                                                              *)
(***************************************************************************)
\* largest maxRetries passed to the wrapper
MaxRetries == 2
\* number of operations an adapter issues one after another
MaxOperations == 3

\* retryConfig, with the delays scaled down to the clock of the model and
\* a multiplier that reaches maxDelay at the second retry (the default
\* config has baseDelay 1000, maxDelay 30000, backoffMultiplier 2)
RetryConfig == [baseDelay |-> 1, maxDelay |-> 2, backoffMultiplier |-> 3]

Errors ==
  [status : {404, 408, 429, 500, 503}, code : {""}]
  \cup [status : {0},
        code : {"", "ECONNRESET", "ETIMEDOUT", "ENOTFOUND", "ECONNREFUSED"}]
  \cup {[status |-> 404, code |-> "ECONNRESET"]}

\* isRetryableError with > 500 in the place of >= 500
isRetryableError_Above500(error) ==
  IF error.status # 0
  THEN error.status > 500 \/ error.status = 429 \/ error.status = 408
  ELSE error.code \in {"ECONNRESET", "ETIMEDOUT", "ENOTFOUND"}

\* BasePlatformAdapter.isRetryableError
isRetryableError(error) ==
  IF error.status # 0
  THEN error.status >= 500 \/ error.status = 429 \/ error.status = 408
  ELSE error.code \in {"ECONNRESET", "ETIMEDOUT", "ENOTFOUND"}

RECURSIVE Pow(_, _)
Pow(b, e) == IF e = 0 THEN 1 ELSE b * Pow(b, e - 1)

\* a delay that is not capped at maxDelay
BackoffDelay_Uncapped(attempt) ==
  RetryConfig.baseDelay * Pow(RetryConfig.backoffMultiplier, attempt - 1)

\* the delay before attempt number attempt > 0 (lines 83-86)
BackoffDelay(attempt) ==
  Min(RetryConfig.baseDelay * Pow(RetryConfig.backoffMultiplier, attempt - 1),
      RetryConfig.maxDelay)

\* operation() is invoked at clock value t (line 91)
InvokeOperation(r, t) ==
  [r EXCEPT !.pc = "operation", !.invocations = @ + 1, !.invokedAt = t,
            !.wakeAt = 0]

\* an attempt whose first try goes to operation() without the limiter
EnterAttempt_FirstUnlimited(r, t) ==
  LET w == getWaitTime(limiter, t)
  IN IF r.attempt = 0
     THEN /\ limiter' = limiter
          /\ now' = t
          /\ retry' = InvokeOperation([r EXCEPT !.slept = FALSE], t)
     ELSE /\ limiter' = w.limiter
          /\ now' = t
          /\ retry' = IF w.waitTime > 0
                      THEN [r EXCEPT !.pc = "waiting",
                                     !.wakeAt = t + w.waitTime,
                                     !.slept = TRUE]
                      ELSE InvokeOperation([r EXCEPT !.slept = FALSE], t)

\* await this.rateLimiter.waitIfNeeded() at clock value t, then operation()
\* unless the limiter sleeps first (lines 90-91, 166-171)
EnterAttempt(r, t) ==
  LET w == getWaitTime(limiter, t)
  IN /\ limiter' = w.limiter
     /\ now' = t
     /\ retry' = IF w.waitTime > 0
                 THEN [r EXCEPT !.pc = "waiting", !.wakeAt = t + w.waitTime,
                                !.slept = TRUE]
                 ELSE InvokeOperation([r EXCEPT !.slept = FALSE], t)

\* the adapter calls retryWithExponentialBackoff; the call before it is over
RetryCall(maxRetries, t) ==
  /\ retry.pc \in {"idle", "returned", "threw"}
  /\ retry.n < MaxOperations
  /\ EnterAttempt([NoRetry EXCEPT !.n = retry.n + 1,
                                  !.maxRetries = maxRetries], t)
  /\ observed' = NoCall
  /\ UNCHANGED <<engine, completed, adapter, publishing>>

\* the timer of waitIfNeeded fires: operation() is invoked at once
LimiterSleepOver(t) ==
  /\ retry.pc = "waiting"
  /\ t >= retry.wakeAt
  /\ now' = t
  /\ retry' = InvokeOperation(retry, t)
  /\ UNCHANGED <<engine, limiter, completed, observed, adapter, publishing>>

\* the timer of sleep(delay) fires (line 87)
BackoffOver(t) ==
  /\ retry.pc = "backoff"
  /\ t >= retry.wakeAt
  /\ EnterAttempt(retry, t)
  /\ UNCHANGED <<engine, completed, observed, adapter, publishing>>

\* operation() resolves: recordRequest, return (lines 91-93)
OperationResolves(t) ==
  /\ retry.pc = "operation"
  /\ now' = t
  /\ limiter' = recordRequest(limiter)
  /\ completed' = Append(completed, retry.invokedAt)
  /\ retry' = [retry EXCEPT !.pc = "returned", !.lastError = NoError,
                            !.invokedAt = 0, !.rejection = NoError]
  /\ UNCHANGED <<engine, observed, adapter, publishing>>

\* a catch block that retries whatever the error is
Caught_RetryAnyError(r, error, t) ==
  IF r.attempt = r.maxRetries
  THEN [retry |-> [r EXCEPT !.pc = "threw", !.lastError = error],
        observed |-> observed]
  ELSE [retry |-> [r EXCEPT !.pc = "backoff", !.lastError = error,
                            !.attempt = @ + 1,
                            !.wakeAt = t + BackoffDelay(r.attempt + 1)],
        observed |-> [op |-> "isRetryableError", error |-> error,
                      answer |-> TRUE]]

\* the catch block and the loop's next iteration up to sleep (lines 94-100,
\* 80-87); isRetryableError is called only if attempt is not the last
Caught(r, error, t) ==
  IF r.attempt = r.maxRetries
  THEN [retry |-> [r EXCEPT !.pc = "threw", !.lastError = error],
        observed |-> observed]
  ELSE LET retryable == isRetryableError(error)
       IN [retry |->
             IF retryable
             THEN [r EXCEPT !.pc = "backoff", !.lastError = error,
                            !.attempt = @ + 1,
                            !.wakeAt = t + BackoffDelay(r.attempt + 1)]
             ELSE [r EXCEPT !.pc = "threw", !.lastError = error],
           observed |-> [op |-> "isRetryableError", error |-> error,
                         answer |-> retryable]]

\* operation() rejects with error, which is noted as the last rejection
OperationRejects(error, t) ==
  /\ retry.pc = "operation"
  /\ now' = t
  /\ LET c == Caught(retry, error, t)
     IN /\ retry' = [c.retry EXCEPT !.rejection = error]
        /\ observed' = c.observed
  /\ UNCHANGED <<engine, limiter, completed, adapter, publishing>>

InitRetry ==
  /\ EngineIdle
  /\ now = 0
  /\ \E burstLimit \in 1..MaxBurst, requestsPerMinute \in RequestRates :
       limiter = NewLimiter(burstLimit, requestsPerMinute, 0)
  /\ retry = NoRetry
  /\ completed = <<>>
  /\ observed = NoCall
  /\ adapter = NoAdapter
  /\ publishing = NoPublish

\* one adapter issuing operations through the wrapper, one after another
NextRetry ==
  \/ \E maxRetries \in 0..MaxRetries, t \in now..MaxLimiterClock :
       RetryCall(maxRetries, t)
  \/ \E t \in now..MaxLimiterClock : LimiterSleepOver(t)
  \/ \E t \in now..MaxLimiterClock : BackoffOver(t)
  \/ \E t \in now..MaxLimiterClock : OperationResolves(t)
  \/ \E error \in Errors, t \in now..MaxLimiterClock :
       OperationRejects(error, t)

SpecRetry == InitRetry /\ [][NextRetry]_vars


(***************************************************************************)
(* The concrete adapters (RedditAdapter, GitHubAdapter, HackerNewsAdapter, *)
(* LinkedInAdapter, DevToAdapter, TwitterAdapter).  A config is kept by    *)
(* what validateConfig reads of it: whether it is enabled, whether baseUrl *)
(* is set, whether the auth object is absent, present without the          *)
(* credential the adapter asks for, or complete, whether the settings      *)
(* pass the adapter's own rules, how many subreddits or repositories they  *)
(* list, and settings.enableThreads.                                       *)
(***************************************************************************)
MaxPublishTargets == 2

AdapterPlatforms ==
  {"reddit", "github", "hackernews", "linkedin", "dev.to", "twitter"}

\* the adapters that post once per subreddit or repository
MultiTarget == {"reddit", "github"}

AdapterConfigs ==
  { c \in [platform : AdapterPlatforms, enabled : BOOLEAN, baseUrl : BOOLEAN,
           auth : {"absent", "incomplete", "complete"},
           settings : {"complete", "incomplete"},
           targets : 0..MaxPublishTargets, enableThreads : BOOLEAN] :
      /\ c.platform \in MultiTarget =>
           (c.targets = 0 <=> c.settings = "incomplete")
      /\ c.platform \notin MultiTarget => c.targets = 1
      /\ c.platform # "twitter" => ~c.enableThreads }

\* the first message the adapter's own rules push for a config
AuthRule ==
  [p \in AdapterPlatforms |->
     CASE p = "github" -> "GitHub token is required"
       [] p = "hackernews" -> "HackerNews username is required"
       [] p = "linkedin" -> "LinkedIn access token is required"
       [] p = "dev.to" -> "Dev.to API key is required"
       [] p = "twitter" -> "Twitter access token is required"
       [] OTHER -> "none"]

SettingsRule ==
  [p \in AdapterPlatforms |->
     CASE p = "reddit" -> "At least one subreddit must be specified"
       [] p = "github" -> "At least one repository must be specified"
       [] p = "hackernews" -> "Username setting is required"
       [] p = "linkedin" ->
            "Company ID is required when using company profile type"
       [] p = "dev.to" -> "Maximum 4 tags allowed for Dev.to"
       [] p = "twitter" -> "Invalid hashtag"]

Validation(isValid, errors) ==
  [threw |-> FALSE, isValid |-> isValid, errors |-> errors]

\* PlatformAdapter.validateConfig; errors is the set of the messages pushed
baseValidateConfig(c) ==
  IF ~c.enabled
  THEN Validation(TRUE, {})
  ELSE LET errors ==
             (IF ~c.baseUrl THEN {"Base URL is required"} ELSE {})
             \cup (IF c.auth = "absent"
                   THEN {"Authentication configuration is required"}
                   ELSE {})
       IN Validation(errors = {}, errors)

\* validateConfig of the six adapters: the base answer is returned only when
\* it is invalid, after it the adapter's own rules are evaluated; reading a
\* credential of an absent auth object throws a TypeError
validateConfig(c) ==
  LET baseValidation == baseValidateConfig(c)
  IN IF ~baseValidation.isValid
     THEN baseValidation
     ELSE IF AuthRule[c.platform] # "none" /\ c.auth = "absent"
     THEN [threw |-> TRUE, isValid |-> FALSE, errors |-> {}]
     ELSE LET errors ==
                (IF AuthRule[c.platform] # "none" /\ c.auth = "incomplete"
                 THEN {AuthRule[c.platform]} ELSE {})
                \cup (IF c.settings = "incomplete"
                      THEN {SettingsRule[c.platform]} ELSE {})
          IN Validation(errors = {}, errors)

\* adapter.validateConfig() is called, before the adapter is used
ValidateConfigCall ==
  /\ publishing.pc = "idle"
  /\ observed' = [op |-> "validateConfig", answer |-> validateConfig(adapter)]
  /\ UNCHANGED <<engine, now, limiter, retry, completed, adapter, publishing>>


(***************************************************************************)
(* TwitterAdapter.formatContent.  A text is kept as its length, the index  *)
(* of the last space among its first MAX_TWEET_LENGTH - 3 characters (-1   *)
(* for none) and whether it contains the tool's url; a tool as the lengths *)
(* of its name, short and long description (0: none), url, hashtag line    *)
(* (-1: no tags, or settings.includeHashtags off) and categories and       *)
(* audience lines (0: neither).  Names, descriptions and categories are    *)
(* taken not to contain the url.                                           *)
(***************************************************************************)
MAX_TWEET_LENGTH == 280

Text(length, lastSpace, url) ==
  [length |-> length, lastSpace |-> lastSpace, url |-> url]

TwitterTools ==
  [name : {10}, shortDescription : {30, 290}, hashtags : {-1, 30, 250},
   longDescription : {0, 100, 270, 400}, url : {25}, info : {0, 60},
   lastSpace : {250}]

\* lastSpace > MAX_TWEET_LENGTH * 0.8, in integers
truncateTweet(text) ==
  IF text.length <= MAX_TWEET_LENGTH
  THEN text
  ELSE IF text.lastSpace * 10 > MAX_TWEET_LENGTH * 8
  THEN Text(text.lastSpace + 3, text.lastSpace, text.url)
  ELSE Text(MAX_TWEET_LENGTH, text.lastSpace, text.url)

createTwitterThread_AlwaysThread(c, tool) ==
  LET plain == 3 + tool.name + 2 + tool.shortDescription
      tweetWithHashtags == plain + 2 + tool.hashtags
      firstTweet ==
        IF tool.hashtags >= 0 /\ tweetWithHashtags <= MAX_TWEET_LENGTH
        THEN tweetWithHashtags ELSE plain
      first == <<truncateTweet(Text(firstTweet, tool.lastSpace, FALSE))>>
      urlText == 5 + tool.url
      fits == tool.longDescription + urlText <= MAX_TWEET_LENGTH
      second ==
        IF tool.longDescription > 0
        THEN Append(first,
               truncateTweet(
                 IF fits
                 THEN Text(tool.longDescription + urlText, tool.lastSpace, TRUE)
                 ELSE Text(tool.longDescription, tool.lastSpace, FALSE)))
        ELSE first
      third ==
        IF tool.info > 0
        THEN Append(second, truncateTweet(Text(tool.info, tool.lastSpace, FALSE)))
        ELSE second
      lastTweet == third[Len(third)]
  IN IF ~lastTweet.url
     THEN Append(third,
            truncateTweet(Text(tool.url + tool.name + 62, tool.lastSpace, TRUE)))
     ELSE third

\* the thread of a tool: the announcement, then, when threads are enabled,
\* the long description, the categories and audience, and the url
createTwitterThread(c, tool) ==
  LET plain == 3 + tool.name + 2 + tool.shortDescription
      tweetWithHashtags == plain + 2 + tool.hashtags
      firstTweet ==
        IF tool.hashtags >= 0 /\ tweetWithHashtags <= MAX_TWEET_LENGTH
        THEN tweetWithHashtags ELSE plain
      first == <<truncateTweet(Text(firstTweet, tool.lastSpace, FALSE))>>
      urlText == 5 + tool.url
      fits == tool.longDescription + urlText <= MAX_TWEET_LENGTH
      second ==
        IF tool.longDescription > 0
        THEN Append(first,
               truncateTweet(
                 IF fits
                 THEN Text(tool.longDescription + urlText, tool.lastSpace, TRUE)
                 ELSE Text(tool.longDescription, tool.lastSpace, FALSE)))
        ELSE first
      third ==
        IF tool.info > 0
        THEN Append(second, truncateTweet(Text(tool.info, tool.lastSpace, FALSE)))
        ELSE second
      lastTweet == third[Len(third)]
  IN IF ~c.enableThreads
     THEN first
     ELSE IF ~lastTweet.url
     THEN Append(third,
            truncateTweet(Text(tool.url + tool.name + 62, tool.lastSpace, TRUE)))
     ELSE third

\* the part of the FormattedContent that publish reads
formatContent(c, tool) == [tweets |-> createTwitterThread(c, tool)]

(***************************************************************************)
(* publish of the six adapters.  A network call ends with a 2xx response,  *)
(* kept as the kind of its body, or with a rejection, kept as the status   *)
(* of its response (0: none), its code and the kind of its response body.  *)
(* Reddit, GitHub and Twitter pause after a unit that went through: the    *)
(* timer of that sleep is the one place where the clock is read, in        *)
(* milliseconds; the time a network call takes is not followed.  The waits *)
(* of the retry wrapper are left out here: SpecRetry has them.             *)
(***************************************************************************)
PublishMaxRetries == 1

\* how late the timer of a sleep may fire
MaxLateness == 1

\* RedditAdapter.publish: await this.sleep(2000)
SubredditPause == 2000

\* GitHubAdapter.publish: await this.sleep(1000)
RepositoryPause == 1000

\* TwitterAdapter.publish: await this.sleep(1000)
TweetPause == 1000

\* the calls of one unit of work, in order, and whether each goes through
\* retryWithExponentialBackoff; LinkedIn posts with a personal profile
Stages ==
  [p \in AdapterPlatforms |->
     CASE p = "reddit" -> <<[call |-> "submit", wrapped |-> TRUE]>>
       [] p = "github" ->
            <<[call |-> "getRepositoryInfo", wrapped |-> FALSE],
              [call |-> "getDiscussionCategoryId", wrapped |-> FALSE],
              [call |-> "createDiscussion", wrapped |-> TRUE]>>
       [] p = "hackernews" ->
            <<[call |-> "submitPage", wrapped |-> FALSE],
              [call |-> "submit", wrapped |-> TRUE]>>
       [] p = "linkedin" ->
            <<[call |-> "getCurrentUserUrn", wrapped |-> FALSE],
              [call |-> "ugcPosts", wrapped |-> TRUE]>>
       [] p = "dev.to" -> <<[call |-> "articles", wrapped |-> TRUE]>>
       [] p = "twitter" -> <<[call |-> "tweets", wrapped |-> TRUE]>>]

\* bodies of a 2xx response: the object the adapter expects ("ok"), that
\* object without its id ("noid"), an object with an errors member and no
\* data ("errors"), a page that contains "duplicate" and no item id
\* ("duplicate"), no body at all ("empty")
Bodies == {"ok", "noid", "errors", "duplicate", "empty"}

\* bodies of an error response: none, a string that contains "duplicate",
\* another string ("text"), an object with a message ("object"), an object
\* whose errors array holds a null ("errorsNull")
PublishErrors ==
  { [status |-> 500, code |-> "", data |-> "text"],
    [status |-> 503, code |-> "", data |-> "duplicate"],
    [status |-> 429, code |-> "", data |-> "duplicate"],
    [status |-> 404, code |-> "", data |-> "object"],
    [status |-> 400, code |-> "", data |-> "errorsNull"],
    [status |-> 0, code |-> "ECONNRESET", data |-> "none"] }

\* an Error thrown by the adapter itself: no response, no code
PlainError == [status |-> 0, code |-> "", data |-> "none"]

\* what the code after a call does with a 2xx response: goes on with the
\* value ("value"), goes on with an undefined id ("undefined"), or throws
Digest(p, call, body) ==
  CASE body = "ok" -> "value"
    [] body = "empty" -> "throw"
    [] p = "reddit" -> IF body = "noid" THEN "undefined" ELSE "throw"
    [] p = "github" -> IF body = "noid" THEN "undefined" ELSE "throw"
    [] p = "hackernews" -> "throw"
    [] p = "linkedin" -> "undefined"
    [] p = "dev.to" -> "throw"
    [] p = "twitter" -> IF body = "noid" THEN "undefined" ELSE "throw"

HackerNewsIsRetryableError_Base(error) == isRetryableError(error)

\* HackerNewsAdapter.isRetryableError: a string body with "duplicate"
\* ("banned" and "Bad login" are treated the same way) is never retried
HackerNewsIsRetryableError(error) ==
  IF error.data = "duplicate" THEN FALSE ELSE isRetryableError(error)

\* this.isRetryableError of an adapter
AdapterIsRetryableError(p, error) ==
  IF p = "hackernews"
  THEN HackerNewsIsRetryableError(error)
  ELSE isRetryableError(error)

\* error.message: axios names the status of the response or, without a
\* response, the code of the failure; an Error thrown by the adapter has a
\* text of its own
Message(error) ==
  CASE error.status # 0 ->
         "Request failed with status code " \o ToString(error.status)
    [] error.code # "" -> error.code
    [] OTHER -> "Error of the adapter"

\* extractErrorMessage of the adapter (Reddit and GitHub read error.message);
\* TwitterAdapter maps err.message over data.errors, which throws on a null
extractErrorMessage(p, error) ==
  CASE p = "twitter" /\ error.data = "errorsNull" ->
         [threw |-> TRUE, message |-> "undefined"]
    [] p = "hackernews" /\ error.data = "duplicate" ->
         [threw |-> FALSE,
          message |-> "This URL has already been submitted to HackerNews"]
    [] p \in {"linkedin", "dev.to", "twitter"}
         /\ error.data \in {"text", "duplicate", "object"} ->
         [threw |-> FALSE, message |-> "response.data"]
    [] p = "dev.to" /\ error.data = "errorsNull" ->
         [threw |-> FALSE, message |-> "response.data"]
    [] OTHER -> [threw |-> FALSE, message |-> Message(error)]

Flag(b) == IF b THEN "true" ELSE "false"

\* PublicationResult; an absent member is "undefined"
Success(postId) ==
  [success |-> TRUE, postId |-> postId, error |-> "undefined",
   retryable |-> "undefined"]

Failure(error, retryable) ==
  [success |-> FALSE, postId |-> "undefined", error |-> error,
   retryable |-> Flag(retryable)]

NoPublicationResult ==
  [success |-> FALSE, postId |-> "undefined", error |-> "undefined",
   retryable |-> "undefined"]

NoOutcome == [kind |-> "none"]

Response(body) == [kind |-> "response", body |-> body]

Rejection(error) == [kind |-> "error", error |-> error]

\* the locals of publish at its first network call
StartPublish(content, units) ==
  [pc |-> "calling", content |-> content, units |-> units, unit |-> 1,
   stage |-> 1, attempt |-> 0, results |-> <<>>, firstId |-> "undefined",
   posted |-> 0, outcome |-> NoOutcome, result |-> NoPublicationResult,
   ended |-> 0, wake |-> 0, gaps |-> <<>>,
   tweetIds |-> <<>>, previousTweetId |-> "undefined",
   replies |-> <<"undefined">>]

PublishReturned(pb, result) == [pb EXCEPT !.pc = "returned", !.result = result]

PublishThrew(pb) == [pb EXCEPT !.pc = "threw"]

\* the catch block of publish in HackerNews, LinkedIn, DevTo and Twitter:
\* the message is extracted, then the failure is returned
PublishCatch(p, pb, error) ==
  LET m == extractErrorMessage(p, error)
  IN IF m.threw
     THEN PublishThrew(pb)
     ELSE PublishReturned(pb, Failure(m.message, AdapterIsRetryableError(p, error)))

\* after the loop of Reddit and GitHub: the first success as it is, or a
\* failure with the last error and "some attempt was retryable"
ReturnResults(pb) ==
  LET results == pb.results
      found == {i \in 1..Len(results) : results[i].success}
      first == CHOOSE i \in found : \A j \in found : i <= j
  IN IF found # {}
     THEN PublishReturned(pb, results[first])
     ELSE PublishReturned(pb,
            Failure(IF results = <<>>
                    THEN "Failed to publish to any target"
                    ELSE results[Len(results)].error,
                    \E i \in 1..Len(results) : results[i].retryable = "true"))

\* a thread whose tweets all reply to its first tweet
NextUnit_ReplyToFirst(pb, t) ==
  [pb EXCEPT !.pc = "calling", !.unit = @ + 1, !.stage = 1, !.attempt = 0,
             !.gaps = Append(@, t - pb.ended),
             !.replies = Append(@, pb.firstId)]

\* the next unit starts at t: the time since the end of the unit before it
\* is kept in gaps, and the in_reply_to_tweet_id of the tweetData that
\* Twitter builds (previousTweetId, absent when undefined) in replies
NextUnit(pb, t) ==
  [pb EXCEPT !.pc = "calling", !.unit = @ + 1, !.stage = 1, !.attempt = 0,
             !.gaps = Append(@, t - pb.ended),
             !.replies = Append(@, pb.previousTweetId)]

\* the pause asked for after a unit that went through: Reddit and GitHub
\* sleep after every target when there are several, Twitter between tweets
Pause(p, pb) ==
  CASE p = "reddit" -> IF pb.units > 1 THEN SubredditPause ELSE 0
    [] p = "github" -> IF pb.units > 1 THEN RepositoryPause ELSE 0
    [] p = "twitter" -> IF pb.unit < pb.units THEN TweetPause ELSE 0
    [] OTHER -> 0

\* the loop of Reddit, GitHub and Twitter goes on at t, after a unit
Resume(p, pb, t) ==
  IF pb.unit < pb.units
  THEN NextUnit(pb, t)
  ELSE IF p \in MultiTarget
  THEN ReturnResults(pb)
  ELSE PublishReturned(pb, Success(pb.firstId))

\* the last call of a unit gave a post id at t
UnitDone(p, pb, postId, t) ==
  LET posted == [pb EXCEPT !.posted = @ + 1, !.ended = t]
      pushed ==
        CASE p \in MultiTarget ->
               [posted EXCEPT !.results = Append(@, Success(postId))]
          [] p = "twitter" ->
               [posted EXCEPT !.firstId = IF pb.unit = 1 THEN postId ELSE @,
                              !.tweetIds = Append(@, postId),
                              !.previousTweetId = postId]
          [] OTHER -> posted
  IN IF p \notin MultiTarget \union {"twitter"}
     THEN PublishReturned(posted, Success(postId))
     ELSE IF Pause(p, pb) > 0
     THEN [pushed EXCEPT !.pc = "sleeping", !.wake = t + Pause(p, pb)]
     ELSE Resume(p, pushed, t)

\* a loop that ends at the first subreddit or repository that fails
UnitThrew_StopsEarly(p, pb, error, t) ==
  IF p \in MultiTarget
  THEN ReturnResults(
         [pb EXCEPT
            !.ended = t,
            !.results =
              Append(@, Failure(Message(error),
                                AdapterIsRetryableError(p, error)))])
  ELSE PublishCatch(p, pb, error)

\* a unit threw at t: Reddit and GitHub push a failure and go on with the
\* next subreddit or repository at once, the others leave through the catch
\* of publish
UnitThrew(p, pb, error, t) ==
  IF p \in MultiTarget
  THEN Resume(p,
         [pb EXCEPT
            !.ended = t,
            !.results =
              Append(@, Failure(Message(error),
                                AdapterIsRetryableError(p, error)))],
         t)
  ELSE PublishCatch(p, pb, error)

\* adapter.formatContent(tool) of the Twitter adapter
FormatContentCall(tool) ==
  /\ adapter.platform = "twitter"
  /\ publishing.pc = "idle"
  /\ publishing' = [pc |-> "formatted", content |-> formatContent(adapter, tool)]
  /\ observed' = [op |-> "formatContent", tool |-> tool,
                  answer |-> formatContent(adapter, tool)]
  /\ UNCHANGED <<engine, now, limiter, retry, completed, adapter>>

\* adapter.publish(tool, content), up to its first network call; Twitter
\* publishes the tweets of the formatted content
PublishCall ==
  /\ IF adapter.platform = "twitter"
     THEN publishing.pc = "formatted"
     ELSE publishing.pc = "idle"
  /\ LET content == IF adapter.platform = "twitter"
                    THEN publishing.content
                    ELSE [tweets |-> <<>>]
         units == CASE adapter.platform = "twitter" -> Len(content.tweets)
                    [] adapter.platform \in MultiTarget -> adapter.targets
                    [] OTHER -> 1
         pb == StartPublish(content, units)
     IN publishing' = IF units = 0 THEN ReturnResults(pb) ELSE pb
  /\ UNCHANGED <<engine, now, limiter, retry, completed, observed, adapter>>

\* the network call in flight is answered with a 2xx response; the ids the
\* platform gives are fresh: "id" for the first post of this publish, "id2"
\* for the second, and so on
NetworkResolves(body) ==
  /\ publishing.pc = "calling"
  /\ LET p == adapter.platform
         pb == [publishing EXCEPT !.outcome = Response(body)]
         digest == Digest(p, Stages[p][pb.stage].call, body)
     IN publishing' =
          IF digest = "throw"
          THEN UnitThrew(p, pb, PlainError, now)
          ELSE IF pb.stage < Len(Stages[p])
          THEN [pb EXCEPT !.stage = @ + 1, !.attempt = 0]
          ELSE UnitDone(p, pb,
                 IF digest # "value" THEN "undefined"
                 ELSE IF pb.posted = 0 THEN "id"
                 ELSE "id" \o ToString(pb.posted + 1),
                 now)
  /\ UNCHANGED <<engine, now, limiter, retry, completed, observed, adapter>>

\* the network call in flight is rejected: a wrapped call is retried while
\* attempts are left and the error is retryable, otherwise the error is
\* thrown (getCurrentUserUrn throws an Error of its own instead)
NetworkRejects(error) ==
  /\ publishing.pc = "calling"
  /\ LET p == adapter.platform
         pb == [publishing EXCEPT !.outcome = Rejection(error)]
     IN publishing' =
          IF /\ Stages[p][pb.stage].wrapped
             /\ pb.attempt < PublishMaxRetries
             /\ AdapterIsRetryableError(p, error)
          THEN [pb EXCEPT !.attempt = @ + 1]
          ELSE UnitThrew(p, pb,
                 IF Stages[p][pb.stage].call = "getCurrentUserUrn"
                 THEN PlainError ELSE error,
                 now)
  /\ UNCHANGED <<engine, now, limiter, retry, completed, observed, adapter>>

\* the timer of the sleep after a unit fires at t, no earlier than asked
SleepEnds ==
  /\ publishing.pc = "sleeping"
  /\ \E t \in publishing.wake .. publishing.wake + MaxLateness :
       /\ now' = t
       /\ publishing' = Resume(adapter.platform, publishing, t)
  /\ UNCHANGED <<engine, limiter, retry, completed, observed, adapter>>

InitAdapter ==
  /\ EngineIdle
  /\ now = 0
  /\ limiter = NoLimiter
  /\ retry = NoRetry
  /\ completed = <<>>
  /\ observed = NoCall
  /\ adapter \in AdapterConfigs
  /\ publishing = NoPublish

\* one adapter instance: its config is validated, then it publishes a tool
NextAdapter ==
  \/ ValidateConfigCall
  \/ \E tool \in TwitterTools : FormatContentCall(tool)
  \/ PublishCall
  \/ \E body \in Bodies : NetworkResolves(body)
  \/ \E error \in PublishErrors : NetworkRejects(error)
  \/ SleepEnds

SpecAdapter == InitAdapter /\ [][NextAdapter]_vars

(***************************************************************************)
(* ToolValidator.validate.  A string is kept as whether it is defined, its *)
(* length and whether it holds nothing but white space; a list as its      *)
(* length, -1 for an undefined one.                                        *)
(***************************************************************************)
Undefined == [defined |-> FALSE, length |-> 0, blank |-> TRUE]

Str(length, blank) == [defined |-> TRUE, length |-> length, blank |-> blank]

Strings == {Undefined, Str(0, TRUE), Str(3, TRUE), Str(3, FALSE)}

ShortDescriptions ==
  {Undefined, Str(3, TRUE), Str(10, FALSE), Str(MaxShortDescription, FALSE),
   Str(MaxShortDescription + 1, FALSE), Str(MaxShortDescription + 1, TRUE)}

ToolInputs ==
  [id : Strings, name : Strings, shortDescription : ShortDescriptions,
   longDescription : Strings, url : {"", "not-a-url", "https://foo.dev"},
   category : {-1, 0, 2}, targetAudience : {-1, 0, 2}]

\* !s || s.trim().length === 0
IsBlank(s) == ~s.defined \/ s.length = 0 \/ s.blank

\* validate with the length rule at >= 280
validate_Below280(tool) ==
  LET errors ==
        IfSeq(IsBlank(tool.id), "Tool ID is required")
        \o IfSeq(IsBlank(tool.name), "Tool name is required")
        \o IfSeq(IsBlank(tool.shortDescription),
                 "Short description is required")
        \o IfSeq(/\ tool.shortDescription.defined
                 /\ tool.shortDescription.length >= MaxShortDescription,
                 "Short description must be 280 characters or less")
        \o IfSeq(IsBlank(tool.longDescription), "Long description is required")
        \o IfSeq(tool.url = "" \/ ~UrlParses(tool.url), "Valid URL is required")
        \o IfSeq(tool.category <= 0, "At least one category is required")
        \o IfSeq(tool.targetAudience <= 0,
                 "At least one target audience is required")
  IN [isValid |-> Len(errors) = 0, errors |-> errors]

\* ToolValidator.validate
validate(tool) ==
  LET errors ==
        IfSeq(IsBlank(tool.id), "Tool ID is required")
        \o IfSeq(IsBlank(tool.name), "Tool name is required")
        \o IfSeq(IsBlank(tool.shortDescription),
                 "Short description is required")
        \o IfSeq(/\ tool.shortDescription.defined
                 /\ tool.shortDescription.length > 0
                 /\ tool.shortDescription.length > MaxShortDescription,
                 "Short description must be 280 characters or less")
        \o IfSeq(IsBlank(tool.longDescription), "Long description is required")
        \o IfSeq(tool.url = "" \/ ~UrlParses(tool.url), "Valid URL is required")
        \o IfSeq(tool.category <= 0, "At least one category is required")
        \o IfSeq(tool.targetAudience <= 0,
                 "At least one target audience is required")
  IN [isValid |-> Len(errors) = 0, errors |-> errors]

\* ToolValidator.validate(tool) is called
ValidateCall ==
  /\ observed.op = "tool"
  /\ observed' = [op |-> "validate", tool |-> observed.tool,
                  answer |-> validate(observed.tool)]
  /\ UNCHANGED <<engine, now, limiter, retry, completed, adapter, publishing>>

InitValidator ==
  /\ EngineIdle
  /\ now = 0
  /\ limiter = NoLimiter
  /\ retry = NoRetry
  /\ completed = <<>>
  /\ \E tool \in ToolInputs : observed = [op |-> "tool", tool |-> tool]
  /\ adapter = NoAdapter
  /\ publishing = NoPublish

NextValidator == ValidateCall

SpecValidator == InitValidator /\ [][NextValidator]_vars

(***************************************************************************)
(* Vocabulary of the claims.                                               *)
(***************************************************************************)
Returned(c) == calls[c].pc = "returned"

ToolAccepted(c) == validateTool(calls[c].tool).isValid

AttemptFailed(c, i) ==
  \/ tasks[c][i].pc = "rejected"
  \/ tasks[c][i].pc = "done" /\ tasks[c][i].outcome = "rejected"

AttemptSucceeded(c, i) ==
  \/ tasks[c][i].pc = "resolved"
  \/ tasks[c][i].pc = "done" /\ tasks[c][i].outcome = "resolved"

\* the platform is enabled where getPlatformConfig looks and has an adapter
Dispatchable(platform) ==
  platform \in adapters /\ getPlatformConfig(platform).enabled

\* the dispatches that hold a permit of the semaphore: from the resolution
\* of their acquire() to their release()
HoldingPcs ==
  {"acquired", "validateConfig", "isAuthenticated", "authenticate",
   "formatContent", "publish", "resolved", "rejected"}

Holders(c) == {i \in 1..Len(tasks[c]) : tasks[c][i].pc \in HoldingPcs}

\* isAuthenticated() sends a request on every call (TwitterAdapter lines
\* 70-78, GitHubAdapter lines 66-74); authenticate() of these adapters and
\* publish() of every adapter do too
ProbesOverNetwork == {"twitter", "github"}

NetworkCall(platform, method) ==
  \/ method = "publish"
  \/ method = "authenticate" /\ platform \in ProbesOverNetwork \cup {"reddit"}
  \/ method = "isAuthenticated" /\ platform \in ProbesOverNetwork

(***************************************************************************)
(* C1.  syndicate's success flag is true exactly when no target            *)
(* platform's attempt failed and at least one succeeded; with one failed   *)
(* and one successful platform, success is false and summary.failed >= 1.  *)
(* The code rethrows a failed attempt, so its Publication never reaches    *)
(* the publications array the summary is computed from.                    *)
(***************************************************************************)
C1_SuccessIffNoFailure ==
  \A c \in Calls :
    /\ Returned(c)
    /\ ToolAccepted(c)
    /\ \A i \in 1..Len(calls[c].targets) : Dispatchable(calls[c].targets[i])
    =>
      LET anyFailed == \E i \in 1..Len(tasks[c]) : AttemptFailed(c, i)
          anySucceeded == \E i \in 1..Len(tasks[c]) : AttemptSucceeded(c, i)
      IN /\ calls[c].result.success <=> (~anyFailed /\ anySucceeded)
         /\ anyFailed /\ anySucceeded =>
              /\ ~calls[c].result.success
              /\ calls[c].result.summary.failed >= 1

(***************************************************************************)
(* C2.  With every target platform enabled and registered, syndicate       *)
(* returns exactly one Publication per target platform, succeeded or       *)
(* failed, and summary.total = publications.length.                        *)
(***************************************************************************)
C2_OnePublicationPerPlatform ==
  \A c \in Calls :
    /\ Returned(c)
    /\ ToolAccepted(c)
    /\ \A i \in 1..Len(calls[c].targets) : Dispatchable(calls[c].targets[i])
    => /\ Len(calls[c].publications) = Len(calls[c].targets)
       /\ \A i \in 1..Len(calls[c].targets) :
            Cardinality({k \in 1..Len(calls[c].publications) :
                           Deref(calls[c].publications[k]).platform
                             = calls[c].targets[i]}) = 1
       /\ calls[c].result.summary.total = Len(calls[c].publications)

(***************************************************************************)
(* C3.  In both modes every target platform's dispatch has been started    *)
(* and has run to completion when syndicate returns, whatever failed on    *)
(* the other platforms: each dispatchable target has its ledger record in  *)
(* a final status.                                                         *)
(***************************************************************************)
C3_EveryTargetDispatched ==
  \A c \in Calls :
    Returned(c) /\ ToolAccepted(c) =>
      /\ Len(tasks[c]) = Len(calls[c].targets)
      /\ \A i \in 1..Len(calls[c].targets) :
           /\ tasks[c][i].pc = "done"
           /\ Dispatchable(calls[c].targets[i]) =>
                heap[c][i].status \in {"success", "failed"}

\* a sequential run where a later platform succeeded after an earlier failed
C3_Witness ==
  \E c \in Calls :
    /\ Returned(c)
    /\ ~calls[c].concurrent
    /\ \E i, j \in 1..Len(tasks[c]) :
         /\ i < j
         /\ AttemptFailed(c, i)
         /\ heap[c][i].status = "failed"
         /\ heap[c][j].status = "success"

(***************************************************************************)
(* C4.  In concurrent mode never more than config.concurrency dispatches   *)
(* hold a permit, i.e. are between their acquire and their release.        *)
(***************************************************************************)
C4_ConcurrencyBound ==
  \A c \in Calls :
    calls[c].concurrent => Cardinality(Holders(c)) <= config.concurrency

\* more targets than permits, one dispatch finished and handed its permit on
C4_Witness ==
  \E c \in Calls :
    /\ calls[c].concurrent
    /\ config.concurrency > 1
    /\ Len(calls[c].targets) > config.concurrency
    /\ Cardinality(Holders(c)) = config.concurrency
    /\ \E i \in 1..Len(tasks[c]) : tasks[c][i].pc = "done"
    /\ \A i \in Holders(c) : tasks[c][i].pc = "publish"

(***************************************************************************)
(* C5 as stated.  In a dry run no network-backed adapter call is made:     *)
(* neither publish nor the isAuthenticated probe nor authenticate.         *)
(***************************************************************************)
C5_NoNetworkCallInDryRun ==
  \A c \in Calls : \A i \in 1..Len(tasks[c]) :
    calls[c].dryRun => ~NetworkCall(calls[c].targets[i], tasks[c][i].pc)

(***************************************************************************)
(* C5 as amended.  In a dry run adapter.publish is never called; the       *)
(* authentication check that precedes formatContent still is.              *)
(***************************************************************************)
C5_NoPublishInDryRun ==
  \A c \in Calls : \A i \in 1..Len(tasks[c]) :
    calls[c].dryRun => tasks[c][i].pc # "publish"

\* a dry run that returned with a publication
C5_Witness ==
  \E c \in Calls :
    /\ calls[c].dryRun
    /\ Returned(c)
    /\ Len(calls[c].publications) > 0

(***************************************************************************)
(* C6 as stated.  In a dry run every attempt ends as a Publication with    *)
(* status success, a 'dry-run-' post id and the dryRun mark, whatever the  *)
(* adapter's authentication state or configuration validity (the platform  *)
(* being enabled and its adapter registered).                              *)
(***************************************************************************)
DryRunRecord(pub) ==
  /\ pub.status = "success"
  /\ pub.platformPostId.kind = "dry-run-"
  /\ pub.metadata.defined /\ pub.metadata.dryRun

DryRunFailures ==
  {"No adapter found for platform", "Platform is not enabled",
   "Invalid configuration", "Authentication failed", "formatContent threw"}

AttemptEnds(c, i) ==
  /\ i \in 1..Len(tasks'[c])
  /\ tasks'[c][i].pc \in {"resolved", "rejected"}
  /\ i \in 1..Len(tasks[c]) => tasks[c][i].pc \notin {"resolved", "rejected"}

LacksRequiredField(tool) ==
  \/ tool.id = ""
  \/ tool.name = ""
  \/ tool.shortLen = 0
  \/ tool.url = ""
  \/ ~UrlParses(tool.url)

RejectedAtOnce(c) ==
  /\ Returned(c)
  /\ ~calls[c].result.success
  /\ calls[c].publications = <<>>
  /\ calls[c].result.summary
       = [total |-> 0, successful |-> 0, failed |-> 0, skipped |-> 0]
  /\ Len(calls[c].errors) > 0
  /\ calls[c].errors = validateTool(calls[c].tool).errors
  /\ tasks[c] = <<>>
  /\ \A i \in 1..MaxTargets : heap[c][i] = NoPub

C7_InvalidToolReturnsAtOnce ==
  /\ [](\A c \in Calls :
          calls[c].pc # "idle" /\ LacksRequiredField(calls[c].tool) =>
            RejectedAtOnce(c))
  /\ [][\A c \in Calls :
          /\ calls[c].pc = "idle"
          /\ calls'[c].pc # "idle"
          /\ LacksRequiredField(calls'[c].tool)
          => /\ calls'[c].pc = "returned"
             /\ <<ledger, heap, tasks>>' = <<ledger, heap, tasks>>]_vars

\* syndicate has returned for a tool without a name
C7_Witness ==
  \E c \in Calls :
    /\ Returned(c)
    /\ calls[c].tool.name = ""
    /\ calls[c].errors = <<"Tool name is required">>

(***************************************************************************)
(* C8.  A tool whose shortDescription has more than 280 characters, valid  *)
(* otherwise, fails the engine's validation in syndicate: no dispatch, no  *)
(* publications.  validateTool has no length rule, so the code dispatches. *)
(***************************************************************************)
C8_LongShortDescriptionRejected ==
  \A c \in Calls :
    /\ calls[c].pc # "idle"
    /\ calls[c].tool.shortLen > MaxShortDescription
    /\ ~LacksRequiredField(calls[c].tool)
    => /\ Returned(c)
       /\ calls[c].publications = <<>>
       /\ tasks[c] = <<>>

(***************************************************************************)
(* C9.  The status of a Publication only moves pending -> in_progress ->   *)
(* success or failed, and success is final, across any interleaving of     *)
(* syndicate calls.  (A record is created and set in_progress within one   *)
(* step of the model.)                                                     *)
(***************************************************************************)
StatusSteps ==
  { <<"none", "pending">>, <<"none", "in_progress">>,
    <<"pending", "in_progress">>,
    <<"in_progress", "success">>, <<"in_progress", "failed">> }

C9_StatusOnlyMovesForward ==
  [][\A c \in Calls : \A i \in 1..MaxTargets :
       heap'[c][i].status # heap[c][i].status =>
         <<heap[c][i].status, heap'[c][i].status>> \in StatusSteps]_vars

(***************************************************************************)
(* C10.  Every ledger Publication with status success carries a            *)
(* platformPostId or is marked metadata.dryRun, also when publish returned *)
(* success without a postId.                                               *)
(***************************************************************************)
C10_SuccessCarriesPostId ==
  \A id \in DOMAIN ledger :
    Deref(ledger[id]).status = "success" =>
      \/ Deref(ledger[id]).platformPostId # NoPostId
      \/ Deref(ledger[id]).metadata.dryRun

(***************************************************************************)
(* C11.  createPublication gives every new Publication an id that is not   *)
(* yet in the ledger: no entry of the ledger is ever replaced, also when   *)
(* two attempts for one tool and platform are created at one clock value.  *)
(***************************************************************************)
C11_CreateNeverOverwrites ==
  [][\A id \in DOMAIN ledger :
       id \in DOMAIN ledger' /\ ledger'[id] = ledger[id]]_vars

(***************************************************************************)
(* C14.  After burstLimit consecutive recordRequest calls with no elapsed  *)
(* time (none since the limiter was created or last refilled),             *)
(* canMakeRequest() answers false; asked again ceil(1/refillRate)          *)
(* milliseconds or more later, it answers true.                            *)
(***************************************************************************)
Exhausted(call) ==
  /\ call.op = "canMakeRequest"
  /\ call.burst >= limiter.burstLimit
  /\ call.elapsed = 0

C14_BurstExhaustsThenRefills ==
  /\ [](Exhausted(observed) => ~observed.answer)
  /\ [][/\ Exhausted(observed)
        /\ observed'.op = "canMakeRequest"
        /\ observed'.elapsed >= CeilDiv(MsPerMinute, limiter.requestsPerMinute)
        => observed'.answer]_vars

\* the bucket was empty and ceil(1/refillRate) = 2 ms later, at 2/3 token
\* per millisecond, a request can be made
C14_Witness ==
  /\ observed.op = "canMakeRequest"
  /\ limiter.requestsPerMinute = 40000
  /\ observed.tokens = 0
  /\ observed.elapsed = CeilDiv(MsPerMinute, limiter.requestsPerMinute)
  /\ observed.answer

(***************************************************************************)
(* C12.  retryWithExponentialBackoff invokes the operation at most         *)
(* maxRetries + 1 times and once more after each failure it retries; it    *)
(* retries after a 503 as long as attempts are left, so that an operation  *)
(* failing maxRetries times with 503 is invoked a last time and its        *)
(* success returned; it never retries after a 404, whose error it throws.  *)
(***************************************************************************)
Retrying ==
  retry.attempt > 0 /\ retry.pc \in {"backoff", "waiting", "operation"}

C12_RetryPolicy ==
  /\ retry.invocations <= retry.maxRetries + 1
  /\ retry.pc \in {"operation", "returned", "threw"} =>
       retry.invocations = retry.attempt + 1
  /\ Retrying => retry.lastError.status # 404
  /\ retry.pc = "threw" =>
       /\ retry.lastError # NoError
       /\ retry.lastError.status = 503 =>
            retry.invocations = retry.maxRetries + 1
       /\ retry.lastError.status = 404 /\ retry.attempt = 0 =>
            retry.invocations = 1

\* the operation succeeded on its last attempt, after a 503 on the one before
C12_Witness ==
  /\ retry.pc = "returned"
  /\ retry.maxRetries = MaxRetries
  /\ retry.invocations = retry.maxRetries + 1
  /\ observed.op = "isRetryableError"
  /\ observed.error.status = 503

(***************************************************************************)
(* C13.  isRetryableError answers true exactly for an error with an HTTP   *)
(* status that is >= 500, 429 or 408, and for an error without a status    *)
(* whose code is ECONNRESET, ETIMEDOUT or ENOTFOUND.                       *)
(***************************************************************************)
C13_RetryableClassification ==
  observed.op = "isRetryableError" =>
    LET status == observed.error.status
        code == observed.error.code
    IN observed.answer <=>
         \/ status # 0 /\ (status >= 500 \/ status = 429 \/ status = 408)
         \/ status = 0 /\ code \in {"ECONNRESET", "ETIMEDOUT", "ENOTFOUND"}

\* a 404 that also carries a transport code has been classified
C13_Witness ==
  /\ observed.op = "isRetryableError"
  /\ observed.error = [status |-> 404, code |-> "ECONNRESET"]
  /\ ~observed.answer

(***************************************************************************)
(* C15.  In any interval of T milliseconds no more than                    *)
(* burstLimit + T * requestsPerMinute / 60000 successful operations are    *)
(* issued (both sides times 60000 below).  An operation is counted at the  *)
(* clock value it was sent at, so that the time it takes does not matter.  *)
(* An operation admitted after waitIfNeeded slept is not paid for:         *)
(* recordRequest still sees less than one token.                           *)
(***************************************************************************)
C15_RateBound ==
  \A i, j \in 1..Len(completed) :
    i <= j =>
      (j - i + 1) * MsPerMinute
        <= limiter.burstLimit * MsPerMinute
           + (completed[j] - completed[i]) * limiter.requestsPerMinute

\* C20: validateConfig of an adapter whose config is not enabled answers
\* {isValid: true, errors: []} without evaluating a rule of the platform,
\* whatever the credentials and the settings are
C20_DisabledIsValid ==
  observed.op = "validateConfig" /\ ~adapter.enabled
    => observed.answer = Validation(TRUE, {})

\* C19: with enableThreads off the Twitter adapter formats every tool into
\* exactly one tweet, whatever the lengths of its descriptions, and publish
\* sends that one tweet and no other
C19_OneTweetWithoutThreads ==
  adapter.platform = "twitter" /\ ~adapter.enableThreads
    => /\ observed.op = "formatContent"
            => Len(observed.answer.tweets) = 1
       /\ publishing.pc \in {"calling", "returned", "threw"}
            => /\ publishing.units = 1
               /\ publishing.posted <= 1
               /\ publishing.pc = "returned" /\ publishing.result.success
                    => publishing.posted = 1

\* a tool with a long description, categories and an over-long announcement
\* was formatted and published without threads
C19_Witness ==
  /\ adapter.platform = "twitter" /\ ~adapter.enableThreads
  /\ observed.op = "formatContent"
  /\ observed.tool.longDescription = 400 /\ observed.tool.info > 0
  /\ observed.tool.shortDescription > MAX_TWEET_LENGTH
  /\ publishing.pc = "returned" /\ publishing.result.success
  /\ publishing.posted = 1

\* the last network call failed with a body that contains "duplicate": an
\* error response, or a 2xx page without an item id
DuplicateFailure(outcome) ==
  \/ outcome.kind = "error" /\ outcome.error.data = "duplicate"
  \/ outcome.kind = "response" /\ outcome.body = "duplicate"

\* C18: a failure of the Hacker News adapter whose response body contains
\* "duplicate" is not retried, whatever the status (503, 429, 2xx without
\* an item id), and publish returns success=false with retryable=false
C18_DuplicateIsPermanent ==
  /\ adapter.platform = "hackernews"
  /\ publishing.pc \in {"calling", "returned", "threw"}
  /\ DuplicateFailure(publishing.outcome)
  => /\ publishing.pc = "returned"
     /\ publishing.result = Failure(publishing.result.error, FALSE)

\* the wrapped POST /submit was answered 503 with a "duplicate" body on
\* its first attempt
C18_Witness ==
  /\ adapter.platform = "hackernews"
  /\ publishing.pc = "returned"
  /\ publishing.outcome.kind = "error"
  /\ publishing.outcome.error.status = 503
  /\ publishing.outcome.error.data = "duplicate"
  /\ Stages["hackernews"][publishing.stage].wrapped
  /\ publishing.attempt = 0

\* C17: a Reddit adapter with two subreddits whose first submission
\* succeeds and whose second fails with HTTP 500 returns the first
\* submission's success result, with a retryable flag that reflects the
\* second attempt's classification (true)
C17_FirstSuccessSecondRetryable ==
  /\ adapter.platform = "reddit"
  /\ publishing.pc = "returned"
  /\ publishing.units = 2
  /\ publishing.outcome.kind = "error"
  /\ publishing.outcome.error.status = 500
  /\ publishing.results
       = <<Success("id"), Failure(Message(publishing.outcome.error), TRUE)>>
  => /\ publishing.result.success
     /\ publishing.result.postId = "id"
     /\ publishing.result.retryable = "true"

\* C16: publish of every adapter returns a PublicationResult whatever its
\* network calls answer (success, HTTP error, transport error, malformed
\* response) and never lets an exception escape; a failure is returned as
\* success=false with an error message and a retryable flag
C16_PublishNeverThrows ==
  /\ publishing.pc # "threw"
  /\ publishing.pc = "returned" /\ ~publishing.result.success
       => /\ publishing.result.error # "undefined"
          /\ publishing.result.retryable \in {"true", "false"}

\* the tools retryFailed(toolId) has to retry: those with a failed entry
\* in the ledger, only the given one when a toolId is passed
ToolsToRetry(toolId) ==
  {k \in groupPublicationsByTool(getFailedPublications) :
     toolId = "" \/ k = toolId}

\* C21: retryFailed(toolId?) re-invokes syndicate once for every tool that
\* has failed ledger entries (only the given tool when toolId is passed)
\* and returns one SyndicationResult per such tool
C21_RetryFailedRetriesEveryTool ==
  [][observed'.op = "retryFailed" /\ observed' # observed
       => observed'.results = Cardinality(ToolsToRetry(observed'.toolId))]_vars

\* C22: the semaphore resumes blocked acquirers in FIFO order: release
\* resumes the acquirer that blocked first, and an acquirer that arrives
\* later gets no permit while an earlier one is still blocked
C22_FifoResume ==
  [][\A i \in 1..MaxAcquirers :
       /\ tasks[1][i].pc = "waiting" /\ tasks'[1][i].pc = "acquired"
            => i = Head(observed.blocked)
       /\ tasks[1][i].pc = "unstarted" /\ tasks'[1][i].pc = "acquired"
            => observed.blocked = <<>>]_vars

\* a release has resumed one acquirer while two others stay blocked
C22_Witness ==
  /\ observed.op = "release"
  /\ observed.resumed # 0
  /\ Len(observed.blocked) >= 2

\* C23: for every target platform whose attempt fails, the error is
\* attached to that platform's Publication record (status failed, error
\* set), which is contained in result.publications, and an entry for the
\* platform is present in result.errors
C23_FailureInRecordAndErrors ==
  \A c \in Calls :
    Returned(c) /\ ToolAccepted(c) =>
      \A i \in 1..Len(tasks[c]) :
        AttemptFailed(c, i) /\ Dispatchable(calls[c].targets[i]) =>
          /\ \E k \in 1..Len(calls[c].publications) :
               LET publication == Deref(calls[c].publications[k])
               IN /\ publication.platform = calls[c].targets[i]
                  /\ publication.status = "failed"
                  /\ publication.error # "undefined"
          /\ \E k \in 1..Len(calls[c].errors) :
               calls[c].errors[k][1] = calls[c].targets[i]

\* call c has an adapter.publish in flight on the platform
PublishingOn(c, platform) ==
  \E i \in 1..Len(tasks[c]) :
    tasks[c][i].pc = "publish" /\ calls[c].targets[i] = platform

\* C24: once the ledger holds a success Publication of a tool on a
\* platform, a syndicate call made later for that tool (the model's calls
\* never pass retryFailed) does not call publish on that platform again:
\* no call has publish in flight on a platform for which it found, when it
\* was made, a success Publication of a real post of its tool
C24_NoDuplicatePost ==
  \A c \in Calls :
    calls[c].tool.id = ValidTool.id /\ PublishingOn(c, "twitter")
      => ~\E pub \in calls[c].successful :
            pub.platform = "twitter" /\ ~pub.metadata.dryRun

NonBlank(s) == s.defined /\ s.length > 0 /\ ~s.blank

Reported(answer, message) ==
  \E k \in 1..Len(answer.errors) : answer.errors[k] = message

\* C25: ToolValidator.validate answers isValid = true exactly when id,
\* name, shortDescription and longDescription are non-blank,
\* shortDescription has at most 280 characters, url parses as a URL and
\* category and targetAudience are non-empty; each violated rule adds its
\* own message, and isValid holds if and only if errors is empty
C25_ValidatorRules ==
  observed.op = "validate" =>
    LET tool == observed.tool
        answer == observed.answer
        tooLong == tool.shortDescription.defined
                   /\ tool.shortDescription.length > 280
    IN /\ answer.isValid <=>
            /\ NonBlank(tool.id) /\ NonBlank(tool.name)
            /\ NonBlank(tool.shortDescription)
            /\ NonBlank(tool.longDescription)
            /\ ~tooLong
            /\ tool.url = "https://foo.dev"
            /\ tool.category > 0 /\ tool.targetAudience > 0
       /\ Reported(answer, "Tool ID is required") <=> ~NonBlank(tool.id)
       /\ Reported(answer, "Tool name is required") <=> ~NonBlank(tool.name)
       /\ Reported(answer, "Short description is required")
            <=> ~NonBlank(tool.shortDescription)
       /\ Reported(answer, "Short description must be 280 characters or less")
            <=> tooLong
       /\ Reported(answer, "Long description is required")
            <=> ~NonBlank(tool.longDescription)
       /\ Reported(answer, "Valid URL is required")
            <=> tool.url # "https://foo.dev"
       /\ Reported(answer, "At least one category is required")
            <=> tool.category <= 0
       /\ Reported(answer, "At least one target audience is required")
            <=> tool.targetAudience <= 0
       /\ answer.isValid <=> answer.errors = <<>>

\* a tool whose short description has exactly 280 characters and whose
\* other fields are in order was found valid
C25_Witness ==
  /\ observed.op = "validate"
  /\ observed.tool.shortDescription = Str(280, FALSE)
  /\ observed.answer.isValid

\* C26: every attempt of retryWithExponentialBackoff, the first included,
\* goes through waitIfNeeded immediately before operation() is invoked (the
\* limiter has just been refilled at the current clock value, or the call
\* was sleeping in waitIfNeeded), and recordRequest is called exactly once,
\* immediately after an operation that succeeded, never after a failed one
C26_LimiterAroundEveryAttempt ==
  [][/\ retry.pc # "operation" /\ retry'.pc = "operation"
        => \/ retry.pc = "waiting" /\ retry.slept
           \/ limiter'.lastRefill = now' /\ limiter'.burst = 0
     /\ limiter'.burst = limiter.burst + 1
        <=> retry.pc = "operation" /\ retry'.pc = "returned"
     /\ retry.pc = "operation" /\ retry'.pc = "returned"
        => limiter' = recordRequest(limiter)
     /\ retry.pc = "operation" /\ retry'.pc \in {"backoff", "threw"}
        => limiter' = limiter]_vars

\* a retry, sent after a backoff with the clock moved on, has succeeded
C26_Witness ==
  /\ retry.pc = "returned"
  /\ retry.attempt >= 1
  /\ retry.invocations = retry.attempt + 1
  /\ Len(completed) >= 1
  /\ completed[Len(completed)] > 0

\* min(baseDelay * backoffMultiplier^(k-1), maxDelay)
ExpectedDelay(k) ==
  LET raw == RetryConfig.baseDelay * Pow(RetryConfig.backoffMultiplier, k - 1)
  IN IF raw < RetryConfig.maxDelay THEN raw ELSE RetryConfig.maxDelay

\* C27: before retry attempt k the wrapper sleeps exactly
\* min(baseDelay * backoffMultiplier^(k-1), maxDelay) ms and the attempt
\* is not entered earlier; no backoff precedes the first attempt, no wait
\* exceeds maxDelay, and when the attempts are used up or the error is not
\* retryable the error of the last attempt made is the one thrown
C27_BackoffDelays ==
  [][/\ retry'.pc = "backoff" /\ retry.pc # "backoff"
        => /\ retry.pc = "operation"
           /\ retry'.attempt = retry.attempt + 1
           /\ retry'.attempt \in 1..retry.maxRetries
           /\ retry'.wakeAt = now' + ExpectedDelay(retry'.attempt)
           /\ retry'.wakeAt - now' <= RetryConfig.maxDelay
     /\ retry.pc = "backoff" /\ retry'.pc # "backoff"
        => now' >= retry.wakeAt
     /\ retry'.pc = "threw" /\ retry.pc # "threw"
        => /\ retry'.lastError = retry'.rejection
           /\ retry'.attempt = retry'.maxRetries
                \/ ~isRetryableError(retry'.lastError)]_vars

\* the second retry, whose delay is cut down to maxDelay, has failed with
\* another error than the first attempt and that error is thrown
C27_Witness ==
  /\ retry.pc = "threw"
  /\ retry.attempt = 2
  /\ retry.lastError.status = 404
  /\ BackoffDelay_Uncapped(2) > RetryConfig.maxDelay

Capacity == limiter.burstLimit * MsPerMinute

\* tokens + elapsedMs * refillRate, in units of 1/60000 token
Refilled == limiter.tokens + (now' - limiter.lastRefill) * limiter.requestsPerMinute

\* C28: after any sequence of canMakeRequest, recordRequest, getWaitTime
\* and waitIfNeeded calls at non-decreasing clock values the token count
\* stays within 0 <= tokens <= burstLimit; a refill is
\* min(capacity, tokens + elapsedMs * refillRate), and recordRequest takes
\* one token only when at least one is there, otherwise nothing
C28_TokensWithinBucket ==
  /\ [](0 <= limiter.tokens /\ limiter.tokens <= Capacity)
  /\ [][/\ observed'.op \in {"canMakeRequest", "getWaitTime", "waitIfNeeded"}
           => limiter'.tokens
                = IF Refilled < Capacity THEN Refilled ELSE Capacity
        /\ observed'.op = "recordRequest"
           => limiter'.tokens
                = IF limiter.tokens >= MsPerMinute
                  THEN limiter.tokens - MsPerMinute
                  ELSE limiter.tokens]_vars

\* waitIfNeeded has refilled a bucket that was not full and the refill was
\* cut down to the capacity
C28_Witness ==
  /\ observed.op = "waitIfNeeded"
  /\ observed.tokens < Capacity
  /\ observed.tokens + observed.elapsed * limiter.requestsPerMinute > Capacity
  /\ limiter.tokens = Capacity

\* the targets whose submission went through, by their place in the
\* configured list
Succeeded(results) == {i \in 1..Len(results) : results[i].success}

\* what the last network call made the unit end with: "none" while the
\* unit goes on, else the id it gave or the error it threw
UnitEnd(p, pb, was) ==
  LET o == pb.outcome
      last == was.stage = Len(Stages[p])
      retried == /\ Stages[p][was.stage].wrapped
                 /\ was.attempt < PublishMaxRetries
                 /\ AdapterIsRetryableError(p, o.error)
      digest == Digest(p, Stages[p][was.stage].call, o.body)
  IN CASE o.kind = "response" /\ digest = "throw" ->
            [kind |-> "threw", error |-> PlainError]
       [] o.kind = "response" /\ last -> [kind |-> "done"]
       [] o.kind = "error" /\ ~retried -> [kind |-> "threw", error |-> o.error]
       [] OTHER -> [kind |-> "none"]

\* C29: Reddit publish and GitHub publish attempt every configured
\* subreddit or repository one after another in the configured order and
\* never stop early, on a success or on a failure: target k is submitted
\* once the k-1 targets before it have their results, each submission that
\* ends adds the result of that target, and publish returns with one result
\* per target.  It returns the result of the first target that succeeded if
\* there is one, else success=false with the error of the last target and
\* retryable=true exactly when some target's failure was classified
\* retryable
C29_EveryTargetInOrder ==
  /\ [](adapter.platform \in MultiTarget /\ publishing.pc \notin {"idle", "threw"}
        => LET pb == publishing
               results == pb.results
               won == Succeeded(results)
           IN /\ pb.pc = "calling" => Len(results) = pb.unit - 1
              /\ pb.pc = "sleeping" => Len(results) = pb.unit
              /\ pb.pc = "returned"
                 => /\ Len(results) = adapter.targets
                    /\ won # {}
                       => \E i \in won : /\ \A j \in won : i <= j
                                         /\ pb.result = results[i]
                    /\ won = {}
                       => /\ ~pb.result.success
                          /\ results # <<>>
                             => pb.result.error = results[Len(results)].error
                          /\ pb.result.retryable = "true"
                             <=> \E i \in 1..Len(results) :
                                   results[i].retryable = "true"
                          /\ pb.result.retryable \in {"true", "false"})
  /\ [][adapter.platform \in MultiTarget /\ publishing.pc = "calling"
        /\ publishing' # publishing
        => LET p == adapter.platform
               end == UnitEnd(p, publishing', publishing)
               results == publishing.results
               after == publishing'.results
           IN /\ end.kind = "none"
                 => after = results /\ publishing'.unit = publishing.unit
              /\ end.kind = "done"
                 => /\ Len(after) = publishing.unit
                    /\ after[Len(after)].success
                    /\ SubSeq(after, 1, Len(results)) = results
              /\ end.kind = "threw"
                 => /\ Len(after) = publishing.unit
                    /\ after[Len(after)]
                         = Failure(Message(end.error),
                                   isRetryableError(end.error))
                    /\ SubSeq(after, 1, Len(results)) = results
              /\ publishing'.pc = "calling"
                 => publishing'.unit \in {publishing.unit, publishing.unit + 1}
       ]_vars

\* two targets: the first failed with a retryable error, the second with
\* another error that is not retryable, and publish returned the second
\* error with retryable=true
C29_Witness ==
  /\ adapter.platform \in MultiTarget
  /\ publishing.pc = "returned"
  /\ Len(publishing.results) = 2
  /\ publishing.results[1] = Failure(Message([status |-> 500, code |-> "", data |-> "text"]), TRUE)
  /\ publishing.results[2] = Failure(Message([status |-> 404, code |-> "", data |-> "object"]), FALSE)
  /\ publishing.result = Failure(publishing.results[2].error, TRUE)

\* the pause the spec gives between two targets of a platform
TargetPause(p) == IF p = "reddit" THEN SubredditPause ELSE RepositoryPause

\* C30: with more than one target configured, at least 2 seconds (Reddit)
\* or 1 second (GitHub) pass between the end of one target's submission and
\* the start of the next target's, whether the earlier one succeeded or
\* failed
C30_PauseBetweenTargets ==
  /\ adapter.platform \in MultiTarget
  /\ adapter.targets > 1
  /\ publishing.pc \in {"calling", "sleeping", "returned"}
  => \A k \in 1..Len(publishing.gaps) :
       publishing.gaps[k] >= TargetPause(adapter.platform)

C32_UrlTweetOnlyIfMissing ==
  /\ adapter.platform = "twitter" /\ adapter.enableThreads
  /\ observed.op = "formatContent"
  => LET tweets == observed.answer.tweets
     IN Cardinality({k \in 1..Len(tweets) : tweets[k].url}) = 1

\* C33: syndicateToPlatform calls the adapter in the order validateConfig,
\* isAuthenticated, authenticate (only after isAuthenticated), formatContent,
\* publish (only when not a dry run).  When validateConfig reports an
\* invalid configuration or authenticate gives false, the attempt ends with
\* its record failed and no later call: an invalid configuration is
\* followed by no adapter call at all, a failed authentication by no
\* publish
C33_AdapterCallOrder ==
  [][\A c \in Calls : \A i \in 1..Len(tasks[c]) :
       LET a == tasks[c][i].pc
           b == tasks'[c][i].pc
           calling == {"validateConfig", "isAuthenticated", "authenticate",
                       "formatContent", "publish"}
           invalid == calls[c].targets[i] \in misconfigured
           id == tasks[c][i].pubId
           failedWith(msg) ==
             /\ b = "rejected"
             /\ tasks'[c][i].error = msg
             /\ id \in DOMAIN ledger'
             /\ heap'[ledger'[id][1]][ledger'[id][2]].status = "failed"
             /\ heap'[ledger'[id][1]][ledger'[id][2]].error = msg
       IN i \in 1..Len(tasks'[c]) /\ a # b
          => /\ b = "validateConfig" => a \notin calling \union {"rejected", "resolved", "done"}
             /\ b = "isAuthenticated" => a = "validateConfig" /\ ~invalid
             /\ b = "authenticate" => a = "isAuthenticated"
             /\ b = "formatContent" => a \in {"isAuthenticated", "authenticate"}
             /\ b = "publish" => a = "formatContent" /\ ~calls[c].dryRun
             /\ a = "validateConfig" /\ invalid
                => failedWith("Invalid configuration")
             /\ a = "validateConfig" /\ ~invalid => b = "isAuthenticated"
             /\ a = "isAuthenticated" => b \in {"authenticate", "formatContent"}
             /\ a = "authenticate" /\ b # "formatContent"
                => failedWith("Authentication failed")
             /\ a \in {"rejected", "resolved", "done"} => b \notin calling]_vars

\* one attempt was ended by validateConfig and another by authenticate,
\* both records are failed
C33_Witness ==
  \E c \in Calls : \E i, j \in 1..Len(tasks[c]) :
    /\ tasks[c][i].pc = "rejected"
    /\ tasks[c][i].error = "Invalid configuration"
    /\ Deref(ledger[tasks[c][i].pubId]).status = "failed"
    /\ tasks[c][j].pc = "rejected"
    /\ tasks[c][j].error = "Authentication failed"
    /\ Deref(ledger[tasks[c][j].pubId]).status = "failed"

\* C34: in sequential mode the target platforms are dispatched one at a
\* time, in the order in which the configuration lists its enabled
\* platforms (options.platforms only selects among them), and the dispatch
\* of a platform starts only after the attempt of the platform before it
\* has finished
C34_SequentialInConfigOrder ==
  \A c \in Calls :
    calls[c].pc \in {"running", "dispatched", "returned"} /\ ~calls[c].concurrent
    => LET targets == calls[c].targets
           listed == config.platforms
       IN /\ \E f \in [1..Len(targets) -> 1..Len(listed)] :
               /\ \A k \in 1..Len(targets) :
                    /\ listed[f[k]].enabled
                    /\ listed[f[k]].platform = targets[k]
               /\ \A j, k \in 1..Len(targets) : j < k => f[j] < f[k]
          /\ \A j, k \in 1..Len(tasks[c]) :
               j < k /\ tasks[c][k].pc # "unstarted"
                 => tasks[c][j].pc = "done"

\* a sequential call with three targets has finished the first two
\* attempts and is in the third
C34_Witness ==
  \E c \in Calls :
    /\ calls[c].pc = "running" /\ ~calls[c].concurrent
    /\ Len(calls[c].targets) = 3
    /\ calls[c].targets[1] # calls[c].targets[3]
    /\ tasks[c][1].pc = "done" /\ tasks[c][2].pc = "done"
    /\ tasks[c][3].pc = "publish"

\* C35: updatePublication(id, patch) puts the fields of the patch, and only
\* these, into the record that the ledger holds under id; the other fields
\* of that record and every other record stay as they are, and for an id
\* that is not in the ledger nothing changes.  No operation takes an id
\* out of the ledger: the set of ids only grows
C35_UpdateMergesPatch ==
  [][/\ DOMAIN ledger \subseteq DOMAIN ledger'
     /\ observed'.op = "updatePublication"
        => LET id == observed'.id
               patch == observed'.patch
           IN /\ ledger' = ledger
              /\ \A c \in Calls : \A i \in 1..MaxTargets :
                   IF id \in DOMAIN ledger /\ ledger[id] = <<c, i>>
                   THEN /\ DOMAIN heap'[c][i] = DOMAIN heap[c][i]
                        /\ \A f \in DOMAIN heap[c][i] :
                             heap'[c][i][f] = IF f \in DOMAIN patch
                                              THEN patch[f]
                                              ELSE heap[c][i][f]
                   ELSE heap'[c][i] = heap[c][i]]_vars

\* the last call was an update under an id that is not in the ledger; the
\* ledger holds a record that an earlier update has set failed, with its
\* error, and another record that is still pending
C35_Witness ==
  /\ observed.op = "updatePublication"
  /\ observed.id \notin DOMAIN ledger
  /\ \E id1, id2 \in DOMAIN ledger :
       /\ Deref(ledger[id1]).status = "failed"
       /\ Deref(ledger[id1]).error = "HTTP 500"
       /\ Deref(ledger[id1]).retryCount = 0
       /\ Deref(ledger[id2]).status = "pending"

\* C36: when syndicate has returned, in sequential and in concurrent mode,
\* every Publication of the ledger that this call created has status
\* success or failed, whatever step of its attempt failed: none is pending
\* or in_progress
C36_NoRecordLeftOpen ==
  \A c \in Calls :
    calls[c].pc = "returned"
    => \A id \in DOMAIN ledger :
         ledger[id][1] = c => Deref(ledger[id]).status \in {"success", "failed"}

\* a concurrent call has returned: one of its attempts failed when
\* formatContent threw, one when publish gave a failure, one went through
C36_Witness ==
  \E c \in Calls :
    /\ calls[c].pc = "returned" /\ calls[c].concurrent
    /\ \E id1, id2, id3 \in DOMAIN ledger :
         /\ ledger[id1][1] = c /\ ledger[id2][1] = c /\ ledger[id3][1] = c
         /\ Deref(ledger[id1]).error = "formatContent threw"
         /\ Deref(ledger[id2]).error = "HTTP 500"
         /\ Deref(ledger[id3]).status = "success"

\* C37: no operation of the engine or of the ledger raises the retryCount
\* of a Publication or sets its status to retrying: retryCount is 0 in
\* every reachable state, and shouldRetry is true of every failed
\* Publication whose maxRetries is positive, however often the tool was
\* syndicated again
C37_RetryCountStaysZero ==
  \A c \in Calls : \A i \in 1..MaxTargets :
    heap[c][i].status # "none"
    => /\ heap[c][i].retryCount = 0
       /\ heap[c][i].status # "retrying"
       /\ heap[c][i].status = "failed" /\ heap[c][i].maxRetries > 0
          => shouldRetry(heap[c][i])

\* the tool was syndicated twice and failed on the platform both times:
\* both records are in the ledger, failed, and shouldRetry holds of the
\* first one still
C37_Witness ==
  /\ calls[1].pc = "returned" /\ calls[2].pc = "returned"
  /\ \E id1, id2 \in DOMAIN ledger :
       /\ ledger[id1][1] = 1 /\ ledger[id2][1] = 2
       /\ Deref(ledger[id1]).platform = Deref(ledger[id2]).platform
       /\ Deref(ledger[id1]).status = "failed"
       /\ Deref(ledger[id2]).status = "failed"
       /\ shouldRetry(Deref(ledger[id1]))

\* C38: in concurrent mode, every adapter call settling in the end, every
\* dispatch that waits for the semaphore gets its permit, every dispatch
\* that has its permit runs to its end and gives the permit back, also when
\* it throws, and syndicate returns; when the dispatches are over all the
\* permits of the semaphore are free and nobody waits
C38_ConcurrentModeTerminates ==
  /\ \A c \in Calls :
       [](calls[c].concurrent /\ calls[c].pc \in {"dispatched", "returned"}
            => /\ calls[c].permits = config.concurrency
               /\ calls[c].waiting = <<>>
               /\ \A i \in 1..Len(tasks[c]) : tasks[c][i].pc = "done")
  /\ \A c \in Calls :
       (calls[c].concurrent /\ calls[c].pc = "running")
         ~> (calls[c].pc = "returned")
  /\ \A c \in Calls : \A i \in 1..MaxTargets :
       (calls[c].concurrent /\ i <= Len(tasks[c])
          /\ tasks[c][i].pc = "waiting")
         ~> (i <= Len(tasks[c]) /\ tasks[c][i].pc = "acquired")
  /\ \A c \in Calls : \A i \in 1..MaxTargets :
       (calls[c].concurrent /\ i <= Len(tasks[c])
          /\ tasks[c][i].pc = "acquired")
         ~> (i <= Len(tasks[c]) /\ tasks[c][i].pc = "done")

\* a concurrent call with three targets and two permits has returned; the
\* third dispatch had to wait, one dispatch threw, and both permits are
\* free
C38_Witness ==
  /\ calls[1].pc = "returned" /\ calls[1].concurrent
  /\ config.concurrency = 2
  /\ Len(tasks[1]) = 3
  /\ calls[1].permits = 2
  /\ tasks[1][3].pc = "done"
  /\ \E i \in 1..3 : tasks[1][i].outcome = "rejected"

\* the configuration lists the platform as enabled
IsEnabled(p) ==
  \E k \in 1..Len(config.platforms) :
    config.platforms[k].platform = p /\ config.platforms[k].enabled

\* C39: the targets of a call are platforms the configuration enables;
\* a platform that is not listed or is disabled has no ledger entry, no
\* Publication object, no dispatch and no entry in errors, whatever
\* options.platforms named; an enabled platform without an adapter is
\* dispatched to, never reaches an adapter method, has no ledger entry and
\* no Publication object, and has its "No adapter found" entry in errors
\* once the dispatches are over
C39_OnlyEnabledPlatformsDispatched ==
  \A c \in Calls :
    LET call == calls[c]
        named(p) == {k \in 1..Len(call.targets) : call.targets[k] = p}
        norecord(p) ==
          /\ \A id \in DOMAIN ledger : Deref(ledger[id]).platform # p
          /\ \A i \in 1..MaxTargets : heap[c][i].platform # p
          /\ \A k \in 1..Len(call.publications) :
               Deref(call.publications[k]).platform # p
    IN /\ \A k \in 1..Len(call.targets) : IsEnabled(call.targets[k])
       /\ Len(tasks[c]) = Len(call.targets)
       /\ validateTool(call.tool).isValid =>
            \A p \in Platforms :
              /\ ~IsEnabled(p) =>
                   /\ norecord(p)
                   /\ \A k \in 1..Len(call.errors) : call.errors[k][1] # p
              /\ IsEnabled(p) /\ p \notin adapters =>
                   /\ norecord(p)
                   /\ \A k \in named(p) :
                        /\ tasks[c][k].pc \in {"unstarted", "waiting",
                                               "acquired", "rejected", "done"}
                        /\ tasks[c][k].pc = "done"
                             => tasks[c][k].outcome = "rejected"
                   /\ call.pc \in {"dispatched", "returned"} /\ named(p) # {}
                        => \E k \in 1..Len(call.errors) :
                             call.errors[k] =
                               <<p, "No adapter found for platform">>

\* twitter is enabled and has no adapter, github is disabled and reddit is
\* not listed: the call has returned with the one error of twitter and
\* nothing for the other two, with every options.platforms that names
\* twitter
C39_Witness ==
  /\ config.platforms = OnePlatform /\ adapters = {"github"}
  /\ calls[1].pc = "returned" /\ calls[1].tool = ValidTool
  /\ calls[1].targets = <<"twitter">>
  /\ calls[1].errors = <<<<"twitter", "No adapter found for platform">>>>
  /\ calls[1].publications = <<>>
  /\ ledger = <<>>

\* C40: the Twitter publish returns success only with every tweet of the
\* thread posted; when tweet k > 1 fails, its retries used up, publish
\* returns success = false without a postId, the k-1 tweets posted before
\* stay as they are, and no later tweet is sent
C40_ThreadFailureReturned ==
  [][ adapter.platform = "twitter"
        /\ publishing.pc \in {"calling", "sleeping"}
      => /\ publishing'.pc = "returned" /\ publishing'.result.success
              => /\ publishing'.posted = publishing'.units
                 /\ Len(publishing'.tweetIds) = publishing'.units
         /\ publishing.pc = "calling" /\ publishing.unit > 1
              /\ publishing'.pc \notin {"calling", "sleeping"}
              /\ publishing'.posted = publishing.posted
              => /\ publishing'.pc = "returned"
                 /\ ~publishing'.result.success
                 /\ publishing'.result.postId = "undefined"
                 /\ publishing'.posted = publishing.unit - 1
                 /\ publishing'.tweetIds = publishing.tweetIds
                 /\ publishing'.unit = publishing.unit ]_vars

====
